---- MODULE Spec2Model ----
(***************************************************************************)
(* Repository indexing pipeline of contextcode-cli:                        *)
(*   src/src/agents/tools/indexer.ts        buildRepositoryIndex           *)
(*   src/src/agents/tools/file-filter.ts    shouldIgnorePath and friends   *)
(*   src/packages/agents/src/tools/stack-detector.ts   detectStack         *)
(*   src/packages/agents/src/tools/ripgrep-search.ts   pattern searches    *)
(* Paths, patterns and file contents are strings handled character by      *)
(* character, as the JavaScript code handles them.  Importances and         *)
(* confidences are kept in tenths (0.5 is 5, 1.0 is 10).                    *)
(***************************************************************************)
EXTENDS Integers, Sequences, FiniteSets, TLC

(***************************************************************************)
(* String primitives (String.prototype.* and node:path, POSIX flavour).     *)
(***************************************************************************)
Ch(s, i) == SubSeq(s, i, i)

StartsWithAt(s, sub, i) ==
  /\ i + Len(sub) - 1 <= Len(s)
  /\ SubSeq(s, i, i + Len(sub) - 1) = sub

StartsWith(s, sub) == StartsWithAt(s, sub, 1)

EndsWith(s, sub) ==
  /\ Len(sub) <= Len(s)
  /\ SubSeq(s, Len(s) - Len(sub) + 1, Len(s)) = sub

Includes(s, sub) == \E i \in 1..(Len(s) - Len(sub) + 1) : StartsWithAt(s, sub, i)

RECURSIVE ReplaceAllFrom(_, _, _, _)
ReplaceAllFrom(s, from, to, i) ==
  IF i > Len(s) THEN ""
  ELSE IF StartsWithAt(s, from, i)
       THEN to \o ReplaceAllFrom(s, from, to, i + Len(from))
       ELSE Ch(s, i) \o ReplaceAllFrom(s, from, to, i + 1)

\* s.replace(/from/g, to) for a literal `from`
ReplaceAll(s, from, to) == ReplaceAllFrom(s, from, to, 1)

\* s.replace("from", to): a string pattern replaces the first occurrence only
ReplaceFirst(s, from, to) ==
  IF Includes(s, from)
  THEN LET i == CHOOSE k \in 1..Len(s) :
                  /\ StartsWithAt(s, from, k)
                  /\ \A j \in 1..(k - 1) : ~StartsWithAt(s, from, j)
       IN SubSeq(s, 1, i - 1) \o to \o SubSeq(s, i + Len(from), Len(s))
  ELSE s

UpperChars == "ABCDEFGHIJKLMNOPQRSTUVWXYZ"
LowerChars == "abcdefghijklmnopqrstuvwxyz"

LowerOf == [i \in 1..Len(UpperChars) |-> Ch(LowerChars, i)]
UpperIndex == [c \in {Ch(UpperChars, i) : i \in 1..Len(UpperChars)} |->
                 CHOOSE i \in 1..Len(UpperChars) : Ch(UpperChars, i) = c]

LowerCh(c) == IF c \in DOMAIN UpperIndex THEN LowerOf[UpperIndex[c]] ELSE c

RECURSIVE ToLowerFrom(_, _)
ToLowerFrom(s, i) == IF i > Len(s) THEN "" ELSE LowerCh(Ch(s, i)) \o ToLowerFrom(s, i + 1)

ToLowerCase(s) == ToLowerFrom(s, 1)

\* number of occurrences of the one-character string c in s
CountCh(s, c) == Cardinality({i \in 1..Len(s) : Ch(s, i) = c})

\* index of the last occurrence of c in s, 0 when there is none
LastIndexOf(s, c) ==
  IF \E i \in 1..Len(s) : Ch(s, i) = c
  THEN CHOOSE i \in 1..Len(s) : Ch(s, i) = c /\ \A j \in (i + 1)..Len(s) : Ch(s, j) # c
  ELSE 0

\* path.basename(p)
Basename(p) == SubSeq(p, LastIndexOf(p, "/") + 1, Len(p))

\* path.dirname(p) of a relative path
Dirname(p) ==
  IF LastIndexOf(p, "/") = 0 THEN "." ELSE SubSeq(p, 1, LastIndexOf(p, "/") - 1)

\* path.extname(p): from the last dot of the basename, none for a leading dot
Extname(p) ==
  LET b == Basename(p)
      d == LastIndexOf(b, ".")
  IN IF d <= 1 THEN "" ELSE SubSeq(b, d, Len(b))

\* path.join(targetDir, rel) names the file rel of the tree: the model keeps
\* repository-relative paths throughout.

(***************************************************************************)
(* The regular expressions the file filter builds.  Their source only      *)
(* holds: an escaped character, `.`, the class star `[^/]*`, and literals. *)
(***************************************************************************)
ClassStar == "[^/]*"

RECURSIVE ReMatchAt(_, _, _, _, _)
\* the regex source r from position i matches s from position j
\* (up to the end of s when toEnd, the `$` anchor)
ReMatchAt(r, i, s, j, toEnd) ==
  IF i > Len(r) THEN (~toEnd \/ j > Len(s))
  ELSE IF StartsWithAt(r, ClassStar, i)
       THEN \/ ReMatchAt(r, i + Len(ClassStar), s, j, toEnd)
            \/ /\ j <= Len(s)
               /\ Ch(s, j) # "/"
               /\ ReMatchAt(r, i, s, j + 1, toEnd)
  ELSE IF Ch(r, i) = "\\"
       THEN /\ j <= Len(s)
            /\ Ch(s, j) = Ch(r, i + 1)
            /\ ReMatchAt(r, i + 2, s, j + 1, toEnd)
  ELSE IF Ch(r, i) = "."
       THEN /\ j <= Len(s)
            /\ ReMatchAt(r, i + 1, s, j + 1, toEnd)
  ELSE /\ j <= Len(s)
       /\ Ch(s, j) = Ch(r, i)
       /\ ReMatchAt(r, i + 1, s, j + 1, toEnd)

\* new RegExp(`^${r}$`).test(s)
RegexTestAnchored(r, s) == ReMatchAt(r, 1, s, 1, TRUE)

\* new RegExp(r).test(s): a match may start anywhere and end anywhere
RegexTest(r, s) == \E j \in 1..(Len(s) + 1) : ReMatchAt(r, 1, s, j, FALSE)

(***************************************************************************)
(* file-filter.ts                                                          *)
(***************************************************************************)
DEFAULT_IGNORE_PATTERNS ==
  << "dist", "build", "out", ".next", ".nuxt", ".output", ".vercel", ".netlify",
     "node_modules", "vendor", "bower_components", ".pnp",
     ".yarn/cache", ".yarn/install-state.gz",
     ".git", ".svn", ".hg",
     ".vscode", ".idea", ".DS_Store",
     "*.log", "*.tmp", ".cache", ".temp",
     "coverage", ".nyc_output",
     ".env.local", ".env.*.local", "*.min.js", "*.bundle.js" >>

WORDPRESS_THEME_KEEP_PATTERNS ==
  << "style.css", "functions.php", "index.php", "header.php", "footer.php",
     "sidebar.php", "single.php", "page.php", "archive.php",
     "template-*.php", "inc/**/*.php", "templates/**/*.php" >>

\* the themeIgnore list local to shouldIgnorePath
themeIgnore == << "node_modules", ".git", "dist", "build", ".cache" >>

\* minimatch(filePath, pattern): the "simple glob matching" of the file filter
minimatchRegex(pattern) ==
  ReplaceAll(ReplaceAll(ReplaceAll(ReplaceAll(pattern, ".", "\\."), "**", ".*"),
                        "*", ClassStar), "?", ".")

minimatch(filePath, pattern) == RegexTestAnchored(minimatchRegex(pattern), filePath)

\* the regular expression built for a keep pattern that holds "**"
keepRegex(pattern) ==
  ReplaceAll(ReplaceAll(ReplaceFirst(pattern, "**", ".*"), ".", "\\."), "*", ClassStar)

isThemeFile(relativePath) ==
  \E k \in 1..Len(WORDPRESS_THEME_KEEP_PATTERNS) :
    LET pattern == WORDPRESS_THEME_KEEP_PATTERNS[k]
    IN IF Includes(pattern, "**")
       THEN RegexTest(keepRegex(pattern), relativePath)
       ELSE minimatch(relativePath, pattern)

\* relativePath.startsWith(pattern + "/") || relativePath === pattern
prefixOrExact(relativePath, pattern) ==
  StartsWith(relativePath, pattern \o "/") \/ relativePath = pattern

matchesIgnoreList(relativePath, patterns) ==
  \E k \in 1..Len(patterns) :
    IF Includes(patterns[k], "*")
    THEN minimatch(relativePath, patterns[k])
    ELSE prefixOrExact(relativePath, patterns[k])

\* a filter that drops what the keep list names
shouldIgnorePathDroppingKept(relativePath, context, customIgnorePatterns) ==
  IF context.isWordPressTheme /\ isThemeFile(relativePath) THEN TRUE
  ELSE IF /\ context.isWordPressTheme
          /\ \E k \in 1..Len(themeIgnore) : prefixOrExact(relativePath, themeIgnore[k])
       THEN TRUE
  ELSE LET allPatterns == DEFAULT_IGNORE_PATTERNS \o customIgnorePatterns
       IN matchesIgnoreList(relativePath, allPatterns)

shouldIgnorePath(relativePath, context, customIgnorePatterns) ==
  IF context.isWordPressTheme /\ isThemeFile(relativePath) THEN FALSE
  ELSE IF /\ context.isWordPressTheme
          /\ \E k \in 1..Len(themeIgnore) : prefixOrExact(relativePath, themeIgnore[k])
       THEN TRUE
  ELSE LET allPatterns == DEFAULT_IGNORE_PATTERNS \o customIgnorePatterns
       IN matchesIgnoreList(relativePath, allPatterns)

sourceExts ==
  { ".ts", ".tsx", ".js", ".jsx", ".mjs", ".cjs", ".py", ".go", ".rs", ".java",
    ".kt", ".swift", ".rb", ".php", ".vue", ".svelte", ".astro" }

isSourceFile(filePath) == ToLowerCase(Extname(filePath)) \in sourceExts

configPatterns ==
  { "package.json", "tsconfig.json", "tsup.config", "vite.config", "next.config",
    "webpack.config", "rollup.config", ".env", "docker-compose.yml", "dockerfile",
    "makefile", ".gitignore", ".prettierrc", ".eslintrc" }

isConfigFile(filePath) ==
  LET basename == ToLowerCase(Basename(filePath))
  IN \E pattern \in configPatterns : Includes(basename, ToLowerCase(pattern))

isDocumentationFile(filePath) ==
  ToLowerCase(Extname(filePath)) \in { ".md", ".mdx", ".txt" }

isTestFile(filePath) ==
  LET lowerPath == ToLowerCase(filePath)
  IN \/ Includes(lowerPath, ".test.")
     \/ Includes(lowerPath, ".spec.")
     \/ Includes(lowerPath, "__tests__")
     \/ Includes(lowerPath, "__test__")
     \/ Includes(lowerPath, "/tests/")
     \/ Includes(lowerPath, "/test/")

categorizeFile(filePath) ==
  IF isTestFile(filePath) THEN "test"
  ELSE IF isConfigFile(filePath) THEN "config"
  ELSE IF isDocumentationFile(filePath) THEN "documentation"
  ELSE IF isSourceFile(filePath) THEN "source"
  ELSE "asset"

Max(a, b) == IF a >= b THEN a ELSE b
Min(a, b) == IF a <= b THEN a ELSE b

\* the sum of the base importance and the bonuses, without the final Math.min
calculateFileImportanceUnclamped(filePath, context) ==
  LET depth == CountCh(filePath, "/")
      basename == ToLowerCase(Basename(filePath))
      entryBonus == IF basename \in { "index.ts", "index.js", "main.ts", "app.ts",
                                      "package.json", "tsconfig.json" }
                    THEN 3 ELSE 0
      readmeBonus == IF basename \in { "readme.md", "claude.md" } THEN 4 ELSE 0
      themeBonus == IF /\ context.isWordPressTheme
                       /\ basename \in { "functions.php", "style.css" }
                    THEN 4 ELSE 0
  IN 5 + Max(0, 5 - depth) + entryBonus + readmeBonus + themeBonus

\* importance in tenths; Math.min(1.0, importance) is Min(10, importance)
\* a score without the base of 0.5
calculateFileImportanceFromZero(filePath, context) ==
  Min(10, calculateFileImportanceUnclamped(filePath, context) - 5)

calculateFileImportance(filePath, context) ==
  LET depth == CountCh(filePath, "/")
      basename == ToLowerCase(Basename(filePath))
      entryBonus == IF basename \in { "index.ts", "index.js", "main.ts", "app.ts",
                                      "package.json", "tsconfig.json" }
                    THEN 3 ELSE 0
      readmeBonus == IF basename \in { "readme.md", "claude.md" } THEN 4 ELSE 0
      themeBonus == IF /\ context.isWordPressTheme
                       /\ basename \in { "functions.php", "style.css" }
                    THEN 4 ELSE 0
  IN Min(10, 5 + Max(0, 5 - depth) + entryBonus + readmeBonus + themeBonus)

(***************************************************************************)
(* The file system.  A tree is a set of files with pairwise distinct paths: *)
(*   path      repository-relative, "/"-separated                           *)
(*   size      bytes reported by statSync                                   *)
(*   statOk    whether statSync succeeds when the indexer reaches the file  *)
(*   readable  whether readFileSync succeeds                                *)
(*   content   the text of the file                                         *)
(*   manifest  what JSON.parse makes of the content (package.json only)     *)
(* The tree holds the files that .gitignore does not exclude.               *)
(***************************************************************************)
NoDeps == [react |-> "", vue |-> "", express |-> ""]

\* JSON.parse threw, or the file is no manifest
NoManifest ==
  [valid |-> FALSE, name |-> "", version |-> "", description |-> "",
   enginesNode |-> "", dependencies |-> NoDeps, devDependencies |-> NoDeps,
   workspaces |-> <<>>]

IsFile(tree, p) == \E f \in tree : f.path = p

FileAt(tree, p) == CHOOSE f \in tree : f.path = p

\* existsSync: true of a file and of a directory that holds one
existsSync(tree, p) == \E f \in tree : f.path = p \/ StartsWith(f.path, p \o "/")

\* readFileSync(p, "utf8"): ok is FALSE when it throws
readFileSync(tree, p) ==
  IF IsFile(tree, p) /\ FileAt(tree, p).readable
  THEN [ok |-> TRUE, content |-> FileAt(tree, p).content]
  ELSE [ok |-> FALSE, content |-> ""]

(***************************************************************************)
(* stack-detector.ts                                                       *)
(***************************************************************************)
STACK_DETECTION_RULES ==
  <<
     [files |-> <<"package.json">>, keywords |-> <<>>, name |-> "Node.js", category |-> "runtime"],
     [files |-> <<"tsconfig.json">>, keywords |-> <<>>, name |-> "TypeScript", category |-> "language"],
     [files |-> <<"bun.lockb">>, keywords |-> <<>>, name |-> "Bun", category |-> "runtime"],
     [files |-> <<"deno.json", "deno.jsonc">>, keywords |-> <<>>, name |-> "Deno", category |-> "runtime"],
     [files |-> <<"pnpm-lock.yaml">>, keywords |-> <<>>, name |-> "pnpm", category |-> "tool"],
     [files |-> <<"yarn.lock">>, keywords |-> <<>>, name |-> "Yarn", category |-> "tool"],
     [files |-> <<"package-lock.json">>, keywords |-> <<>>, name |-> "npm", category |-> "tool"],
     [files |-> <<"bun.lockb">>, keywords |-> <<>>, name |-> "Bun", category |-> "tool"],
     [files |-> <<"next.config.js", "next.config.mjs", "next.config.ts">>, keywords |-> <<>>, name |-> "Next.js", category |-> "framework"],
     [files |-> <<"nuxt.config.js", "nuxt.config.ts">>, keywords |-> <<>>, name |-> "Nuxt", category |-> "framework"],
     [files |-> <<"vite.config.js", "vite.config.ts">>, keywords |-> <<>>, name |-> "Vite", category |-> "tool"],
     [files |-> <<"svelte.config.js">>, keywords |-> <<>>, name |-> "Svelte", category |-> "framework"],
     [files |-> <<"astro.config.mjs">>, keywords |-> <<>>, name |-> "Astro", category |-> "framework"],
     [files |-> <<"remix.config.js">>, keywords |-> <<>>, name |-> "Remix", category |-> "framework"],
     [files |-> <<"nest-cli.json">>, keywords |-> <<>>, name |-> "NestJS", category |-> "framework"],
     [files |-> <<"fastify.config.js">>, keywords |-> <<>>, name |-> "Fastify", category |-> "framework"],
     [files |-> <<"webpack.config.js", "webpack.config.ts">>, keywords |-> <<>>, name |-> "Webpack", category |-> "tool"],
     [files |-> <<"rollup.config.js">>, keywords |-> <<>>, name |-> "Rollup", category |-> "tool"],
     [files |-> <<"esbuild.config.js">>, keywords |-> <<>>, name |-> "esbuild", category |-> "tool"],
     [files |-> <<"tsup.config.ts">>, keywords |-> <<>>, name |-> "tsup", category |-> "tool"],
     [files |-> <<"jest.config.js", "jest.config.ts">>, keywords |-> <<>>, name |-> "Jest", category |-> "tool"],
     [files |-> <<"vitest.config.ts">>, keywords |-> <<>>, name |-> "Vitest", category |-> "tool"],
     [files |-> <<"playwright.config.ts">>, keywords |-> <<>>, name |-> "Playwright", category |-> "tool"],
     [files |-> <<"cypress.config.js">>, keywords |-> <<>>, name |-> "Cypress", category |-> "tool"],
     [files |-> <<"requirements.txt", "pyproject.toml">>, keywords |-> <<>>, name |-> "Python", category |-> "language"],
     [files |-> <<"setup.py">>, keywords |-> <<>>, name |-> "Python", category |-> "language"],
     [files |-> <<"Pipfile">>, keywords |-> <<>>, name |-> "Pipenv", category |-> "tool"],
     [files |-> <<"poetry.lock">>, keywords |-> <<>>, name |-> "Poetry", category |-> "tool"],
     [files |-> <<"manage.py">>, keywords |-> <<>>, name |-> "Django", category |-> "framework"],
     [files |-> <<"flask_app.py", "app.py">>, keywords |-> <<"from flask import">>, name |-> "Flask", category |-> "framework"],
     [files |-> <<"go.mod">>, keywords |-> <<>>, name |-> "Go", category |-> "language"],
     [files |-> <<"go.sum">>, keywords |-> <<>>, name |-> "Go", category |-> "language"],
     [files |-> <<"Cargo.toml">>, keywords |-> <<>>, name |-> "Rust", category |-> "language"],
     [files |-> <<"Cargo.lock">>, keywords |-> <<>>, name |-> "Cargo", category |-> "tool"],
     [files |-> <<"Gemfile">>, keywords |-> <<>>, name |-> "Ruby", category |-> "language"],
     [files |-> <<"config/application.rb">>, keywords |-> <<>>, name |-> "Ruby on Rails", category |-> "framework"],
     [files |-> <<"composer.json">>, keywords |-> <<>>, name |-> "PHP", category |-> "language"],
     [files |-> <<"artisan">>, keywords |-> <<>>, name |-> "Laravel", category |-> "framework"],
     [files |-> <<"wp-config.php", "wp-load.php">>, keywords |-> <<>>, name |-> "WordPress", category |-> "platform"],
     [files |-> <<"style.css">>, keywords |-> <<"Theme Name:", "Template:">>, name |-> "WordPress Theme", category |-> "platform"],
     [files |-> <<"pom.xml">>, keywords |-> <<>>, name |-> "Maven", category |-> "tool"],
     [files |-> <<"build.gradle", "build.gradle.kts">>, keywords |-> <<>>, name |-> "Gradle", category |-> "tool"],
     [files |-> <<"prisma/schema.prisma">>, keywords |-> <<>>, name |-> "Prisma", category |-> "database"],
     [files |-> <<"drizzle.config.ts">>, keywords |-> <<>>, name |-> "Drizzle", category |-> "database"],
     [files |-> <<"Dockerfile">>, keywords |-> <<>>, name |-> "Docker", category |-> "tool"],
     [files |-> <<"docker-compose.yml", "docker-compose.yaml">>, keywords |-> <<>>, name |-> "Docker Compose", category |-> "tool"],
     [files |-> <<"pnpm-workspace.yaml">>, keywords |-> <<>>, name |-> "pnpm Workspaces", category |-> "tool"],
     [files |-> <<"lerna.json">>, keywords |-> <<>>, name |-> "Lerna", category |-> "tool"],
     [files |-> <<"nx.json">>, keywords |-> <<>>, name |-> "Nx", category |-> "tool"],
     [files |-> <<"turbo.json">>, keywords |-> <<>>, name |-> "Turborepo", category |-> "tool"]
  >>

\* the first file of the rule that exists, 0 when none does (the inner loop
\* breaks at the first hit)
firstExisting(tree, files) ==
  IF \E k \in 1..Len(files) : existsSync(tree, files[k])
  THEN CHOOSE k \in 1..Len(files) :
         /\ existsSync(tree, files[k])
         /\ \A j \in 1..(k - 1) : ~existsSync(tree, files[j])
  ELSE 0

\* a detector that does not look into the matched file
ruleConfidenceCertain(tree, rule, file) == 10

\* confidence (tenths) of a matched rule
ruleConfidence(tree, rule, file) ==
  IF Len(rule.keywords) > 0
  THEN LET r == readFileSync(tree, file)
       IN IF ~r.ok THEN 7
          ELSE IF \E k \in 1..Len(rule.keywords) : Includes(r.content, rule.keywords[k])
               THEN 10
               ELSE 6
  ELSE 10

RECURSIVE applyRules(_, _)
\* the entries of rules k.. in declaration order
applyRules(tree, k) ==
  IF k > Len(STACK_DETECTION_RULES) THEN <<>>
  ELSE LET rule == STACK_DETECTION_RULES[k]
           hit == firstExisting(tree, rule.files)
       IN (IF hit = 0 THEN <<>>
           ELSE << [name |-> rule.name, version |-> "", category |-> rule.category,
                    confidence |-> ruleConfidence(tree, rule, rule.files[hit])] >>)
          \o applyRules(tree, k + 1)

\* version.replace(/^[\^~]/, "")
stripRange(version) ==
  IF StartsWith(version, "^") \/ StartsWith(version, "~")
  THEN SubSeq(version, 2, Len(version))
  ELSE version

\* a || b on strings
OrElse(a, b) == IF a # "" THEN a ELSE b

\* detected.find(t => t.name === "Node.js"): the first such entry gets the version
withNodeVersion(detected, version) ==
  IF \E k \in 1..Len(detected) : detected[k].name = "Node.js"
  THEN LET n == CHOOSE k \in 1..Len(detected) :
                  /\ detected[k].name = "Node.js"
                  /\ \A j \in 1..(k - 1) : detected[j].name # "Node.js"
       IN [detected EXCEPT ![n].version = version]
  ELSE detected

\* the entries derived from the root package.json
manifestEntries(pkg) ==
  LET react == OrElse(pkg.dependencies.react, pkg.devDependencies.react)
      vue == OrElse(pkg.dependencies.vue, pkg.devDependencies.vue)
      express == OrElse(pkg.dependencies.express, pkg.devDependencies.express)
  IN (IF react # ""
      THEN << [name |-> "React", version |-> stripRange(react),
               category |-> "framework", confidence |-> 10] >>
      ELSE <<>>)
     \o (IF vue # ""
         THEN << [name |-> "Vue", version |-> stripRange(vue),
                  category |-> "framework", confidence |-> 10] >>
         ELSE <<>>)
     \o (IF express # ""
         THEN << [name |-> "Express", version |-> "",
                  category |-> "framework", confidence |-> 10] >>
         ELSE <<>>)

\* JSON.parse(readFileSync(p, "utf8")); valid is FALSE when either throws
parseManifest(tree, p) ==
  IF readFileSync(tree, p).ok THEN FileAt(tree, p).manifest ELSE NoManifest

detectStack(tree) ==
  LET detected == applyRules(tree, 1)
      pkg == parseManifest(tree, "package.json")
  IN IF existsSync(tree, "package.json") /\ pkg.valid
     THEN (IF pkg.enginesNode # ""
           THEN withNodeVersion(detected, pkg.enginesNode)
           ELSE detected) \o manifestEntries(pkg)
     ELSE detected

(***************************************************************************)
(* globby over every file below cwd, with the ignore list: the library's    *)
(* glob                                                                     *)
(* semantics.  `**` stands for any number of path segments, `*` for any     *)
(* characters of one segment; a segment starting with a dot is matched by   *)
(* neither (dot: false).  An ignore pattern that matches a directory        *)
(* excludes what the directory holds.                                       *)
(***************************************************************************)
RECURSIVE SplitFrom(_, _, _)
SplitFrom(s, i, acc) ==
  IF i > Len(s) THEN << acc >>
  ELSE IF Ch(s, i) = "/" THEN << acc >> \o SplitFrom(s, i + 1, "")
  ELSE SplitFrom(s, i + 1, acc \o Ch(s, i))

\* s.split("/")
Split(s) == SplitFrom(s, 1, "")

RECURSIVE WildAt(_, _, _, _)
\* the glob segment g from i matches the name n from j
WildAt(g, i, n, j) ==
  IF i > Len(g) THEN j > Len(n)
  ELSE IF Ch(g, i) = "*"
       THEN WildAt(g, i + 1, n, j) \/ (j <= Len(n) /\ WildAt(g, i, n, j + 1))
  ELSE j <= Len(n) /\ Ch(n, j) = Ch(g, i) /\ WildAt(g, i + 1, n, j + 1)

RECURSIVE GlobSegs(_, _, _, _)
\* the pattern segments gs from i match the path segments ps from j
GlobSegs(gs, i, ps, j) ==
  IF i > Len(gs) THEN j > Len(ps)
  ELSE IF gs[i] = "**"
       THEN GlobSegs(gs, i + 1, ps, j) \/ (j <= Len(ps) /\ GlobSegs(gs, i, ps, j + 1))
  ELSE j <= Len(ps) /\ WildAt(gs[i], 1, ps[j], 1) /\ GlobSegs(gs, i + 1, ps, j + 1)

GlobMatch(pattern, p) == GlobSegs(Split(pattern), 1, Split(p), 1)

\* the path or one of the directories above it matches the ignore pattern
GlobIgnores(pattern, p) ==
  LET ps == Split(p)
      gs == Split(pattern)
  IN \E n \in 1..Len(ps) : GlobSegs(gs, 1, SubSeq(ps, 1, n), 1)

HasDotSegment(p) ==
  LET ps == Split(p)
  IN \E k \in 1..Len(ps) : StartsWith(ps[k], ".")

\* the set of paths globby returns; their order is not determined by the tree
globby(tree, ignore) ==
  { f.path : f \in { g \in tree :
                       /\ ~HasDotSegment(g.path)
                       /\ \A k \in 1..Len(ignore) : ~GlobIgnores(ignore[k], g.path) } }

(***************************************************************************)
(* keyword-extractor.ts.  The matches of each regular expression of the     *)
(* extractor in a file's text are part of the file (field `found`): the     *)
(* captured group of every match, in the order exec() yields them.          *)
(*   export       exportRegex: an exported declaration's name               *)
(*   class        classRegex: the name after the word class                 *)
(*   binding      functionRegex of the JavaScript strategy                  *)
(*   import       importRegex: the module specifier of an import ... from   *)
(*   type         typeRegex: the name after interface or type               *)
(*   require      requireRegex: the module specifier of a require call      *)
(*   def          functionRegex of the Python strategy                      *)
(*   pyimport     importRegex of the Python strategy                        *)
(*   topclass, topdef, toppyimport   their line-anchored forms              *)
(*   phpfunction  functionRegex of the PHP strategy                         *)
(*   hook         hookRegex: the hook name of add_action or add_filter      *)
(*   wpfunction   wpFunctionRegex: names starting with wp_, get_ or the_    *)
(*   identifier   identifierRegex: capitalized identifiers                  *)
(***************************************************************************)
NoMatches ==
  [export |-> <<>>, class |-> <<>>, binding |-> <<>>, import |-> <<>>,
   type |-> <<>>, require |-> <<>>, def |-> <<>>, pyimport |-> <<>>,
   topclass |-> <<>>, topdef |-> <<>>, toppyimport |-> <<>>,
   phpfunction |-> <<>>, hook |-> <<>>, wpfunction |-> <<>>, identifier |-> <<>>]

COMMON_WORDS ==
  { "the", "a", "an", "and", "or", "but", "in", "on", "at", "to", "for",
    "of", "with", "by", "from", "as", "is", "was", "are", "were", "be",
    "been", "have", "has", "had", "do", "does", "did", "will", "would",
    "should", "could", "may", "might", "must", "can", "this", "that",
    "these", "those", "get", "set", "new", "return", "if", "else", "var",
    "let", "const", "function", "class", "import", "export", "default" }

IsUpper(c) == \E i \in 1..Len(UpperChars) : Ch(UpperChars, i) = c
IsLower(c) == \E i \in 1..Len(LowerChars) : Ch(LowerChars, i) = c

SeqContains(seq, e) == \E k \in 1..Len(seq) : seq[k] = e

\* Set.prototype.add on an insertion-ordered set
SetAdd(set, e) == IF SeqContains(set, e) THEN set ELSE Append(set, e)

\* add() of each item in turn: the set, then the items that are neither in it
\* nor earlier among the items
SetAddAll(set, items) ==
  LET all == set \o items
      firsts == { k \in 1..Len(all) :
                    k <= Len(set) \/ \A j \in 1..(k - 1) : all[j] # all[k] }
  IN [i \in 1..Cardinality(firsts) |->
        all[CHOOSE k \in firsts : Cardinality({ j \in firsts : j < k }) = i - 1]]

RECURSIVE SelectSeqBy(_, _)
\* keep[k] tells whether items[k] stays
SelectSeqBy(items, keep) ==
  IF items = <<>> THEN <<>>
  ELSE (IF Head(keep) THEN << Head(items) >> ELSE <<>>)
       \o SelectSeqBy(Tail(items), Tail(keep))

\* array.slice(0, n)
Slice(seq, n) == SubSeq(seq, 1, Min(n, Len(seq)))

RECURSIVE spacedFrom(_, _)
\* the three replace() calls of splitCamelCase, from position i
spacedFrom(str, i) ==
  IF i > Len(str) THEN ""
  ELSE LET c == Ch(str, i)
           here == IF c = "-" \/ c = "_" THEN " " ELSE c
           gap == /\ i < Len(str)
                  /\ \/ IsLower(c) /\ IsUpper(Ch(str, i + 1))
                     \/ /\ IsUpper(c) /\ IsUpper(Ch(str, i + 1))
                        /\ i + 2 <= Len(str) /\ IsLower(Ch(str, i + 2))
       IN here \o (IF gap THEN " " ELSE "") \o spacedFrom(str, i + 1)

RECURSIVE wordsFrom(_, _, _)
\* .split(/\s+/).filter(Boolean)
wordsFrom(s, i, acc) ==
  IF i > Len(s) THEN (IF acc = "" THEN <<>> ELSE << acc >>)
  ELSE IF Ch(s, i) = " "
       THEN (IF acc = "" THEN <<>> ELSE << acc >>) \o wordsFrom(s, i + 1, "")
  ELSE wordsFrom(s, i + 1, acc \o Ch(s, i))

splitCamelCase(str) == wordsFrom(spacedFrom(str, 1), 1, "")

\* path.basename(p, ext)
BasenameNoExt(p, ext) ==
  LET b == Basename(p)
  IN IF ext # "" /\ b # ext /\ EndsWith(b, ext)
     THEN SubSeq(b, 1, Len(b) - Len(ext))
     ELSE b

notCommon(word, minLen) == Len(word) > minLen /\ ToLowerCase(word) \notin COMMON_WORDS

filenameKeywords(filePath, ext) ==
  LET words == splitCamelCase(BasenameNoExt(filePath, ext))
  IN SetAddAll(<<>>,
       SelectSeqBy(words, [k \in 1..Len(words) |-> notCommon(words[k], 2)]))

\* path.basename(importPath).replace(/^[@]/, ""), kept unless empty or dotted
importNames(imports) ==
  LET names == [k \in 1..Len(imports) |->
                  LET b == Basename(imports[k])
                  IN IF StartsWith(b, "@") THEN SubSeq(b, 2, Len(b)) ELSE b]
  IN SelectSeqBy(names, [k \in 1..Len(names) |->
                           names[k] # "" /\ ~StartsWith(names[k], ".")])

extractJavaScriptKeywords(found, keywords) ==
  LET bindings == SelectSeqBy(found.binding,
                    [k \in 1..Len(found.binding) |-> notCommon(found.binding[k], 3)])
  IN SetAddAll(SetAddAll(SetAddAll(SetAddAll(SetAddAll(keywords,
       found.export), found.class), bindings), importNames(found.import)), found.type)

extractPythonKeywords(found, keywords) ==
  LET defs == SelectSeqBy(found.def,
                [k \in 1..Len(found.def) |->
                   Len(found.def[k]) > 3 /\ ~StartsWith(found.def[k], "_")])
      mods == SelectSeqBy(found.pyimport,
                [k \in 1..Len(found.pyimport) |-> Len(found.pyimport[k]) > 2])
  IN SetAddAll(SetAddAll(SetAddAll(keywords, found.class), defs), mods)

extractPHPKeywords(found, keywords) ==
  LET funcs == SelectSeqBy(found.phpfunction,
                 [k \in 1..Len(found.phpfunction) |->
                    /\ Len(found.phpfunction[k]) > 3
                    /\ ~StartsWith(found.phpfunction[k], "__")])
      wps == SelectSeqBy(found.wpfunction,
               [k \in 1..Len(found.wpfunction) |-> Len(found.wpfunction[k]) > 4])
  IN SetAddAll(SetAddAll(SetAddAll(SetAddAll(keywords,
       found.class), funcs), found.hook), wps)

extractGenericKeywords(found, keywords) ==
  SetAddAll(keywords,
    SelectSeqBy(found.identifier,
      [k \in 1..Len(found.identifier) |-> notCommon(found.identifier[k], 3)]))

\* an extractor that puts the words of the file name after the matches
extractKeywordsFromFileNamesLast(file, content) ==
  LET fileContent == IF content # "" THEN content
                     ELSE IF file.readable THEN file.content ELSE ""
      ext == ToLowerCase(Extname(file.path))
      names == filenameKeywords(file.path, ext)
      keywords ==
        IF ext \in { ".ts", ".tsx", ".js", ".jsx" }
        THEN extractJavaScriptKeywords(file.found, <<>>)
        ELSE IF ext = ".py" THEN extractPythonKeywords(file.found, <<>>)
        ELSE IF ext = ".php" THEN extractPHPKeywords(file.found, <<>>)
        ELSE IF ext \in { ".go", ".rs", ".java", ".kt" }
             THEN extractGenericKeywords(file.found, <<>>)
        ELSE <<>>
  IN IF fileContent = "" THEN <<>> ELSE Slice(SetAddAll(keywords, names), 20)

\* `content` is the text handed in by the indexer; an empty text is falsy and
\* makes the extractor read the file itself
extractKeywordsFromFile(file, content) ==
  LET fileContent == IF content # "" THEN content
                     ELSE IF file.readable THEN file.content ELSE ""
      ext == ToLowerCase(Extname(file.path))
      names == filenameKeywords(file.path, ext)
      keywords ==
        IF ext \in { ".ts", ".tsx", ".js", ".jsx" }
        THEN extractJavaScriptKeywords(file.found, names)
        ELSE IF ext = ".py" THEN extractPythonKeywords(file.found, names)
        ELSE IF ext = ".php" THEN extractPHPKeywords(file.found, names)
        ELSE IF ext \in { ".go", ".rs", ".java", ".kt" }
             THEN extractGenericKeywords(file.found, names)
        ELSE names
  IN IF fileContent = "" THEN <<>> ELSE Slice(keywords, 20)

extractExports(file, content) ==
  LET fileContent == IF content # "" THEN content
                     ELSE IF file.readable THEN file.content ELSE ""
      ext == ToLowerCase(Extname(file.path))
  IN IF fileContent = "" THEN <<>>
     ELSE IF ext \in { ".ts", ".tsx", ".js", ".jsx" } THEN file.found.export
     ELSE IF ext = ".py"
          THEN file.found.topclass
               \o SelectSeqBy(file.found.topdef,
                    [k \in 1..Len(file.found.topdef) |->
                       ~StartsWith(file.found.topdef[k], "_")])
     ELSE <<>>

\* the package a module specifier names
packageName(specifier) ==
  LET parts == Split(specifier)
  IN IF StartsWith(specifier, "@")
     THEN (IF Len(parts) >= 2 THEN parts[1] \o "/" \o parts[2] ELSE parts[1])
     ELSE parts[1]

packageNames(specifiers) ==
  LET kept == SelectSeqBy(specifiers,
                [k \in 1..Len(specifiers) |-> ~StartsWith(specifiers[k], ".")])
  IN [k \in 1..Len(kept) |-> packageName(kept[k])]

extractDependencies(file, content) ==
  LET fileContent == IF content # "" THEN content
                     ELSE IF file.readable THEN file.content ELSE ""
      ext == ToLowerCase(Extname(file.path))
  IN IF fileContent = "" THEN <<>>
     ELSE IF ext \in { ".ts", ".tsx", ".js", ".jsx" }
          THEN SetAddAll(SetAddAll(<<>>, packageNames(file.found.import)),
                         packageNames(file.found.require))
     ELSE IF ext = ".py"
          THEN SetAddAll(<<>>,
                 SelectSeqBy(file.found.toppyimport,
                   [k \in 1..Len(file.found.toppyimport) |->
                      Len(file.found.toppyimport[k]) > 2]))
     ELSE <<>>

(***************************************************************************)
(* ripgrep-search.ts.  What the external tool does for a search is the      *)
(* environment's: rg maps each pattern to the outcome of its command,       *)
(*   status   "missing" (no such executable), "failed" (exit status above   *)
(*            1), "nomatch" (exit status 1) or "ok"                         *)
(*   stdout   the output lines of an "ok" run, each a JSON record of type   *)
(*            match (kind "match"), a record of another type (kind          *)
(*            "other") or no JSON at all (kind "malformed")                 *)
(***************************************************************************)
\* the searches of discoverKeyPatterns
keyPatternSearches ==
  <<
     [pattern |-> "\\.(command|subcommand)\\s*\\(",
      description |-> "CLI command definitions", glob |-> <<"*.ts", "*.js">>, maxCount |-> 50],
     [pattern |-> "program\\.(command|option)",
      description |-> "Commander.js CLI commands", glob |-> <<"*.ts", "*.js">>, maxCount |-> 50],
     [pattern |-> "\\.(get|post|put|patch|delete)\\s*\\(['\"]",
      description |-> "HTTP route definitions", glob |-> <<"*.ts", "*.js">>, maxCount |-> 100],
     [pattern |-> "app\\.(get|post|put|patch|delete|use)\\s*\\(",
      description |-> "Express.js routes", glob |-> <<"*.ts", "*.js">>, maxCount |-> 100],
     [pattern |-> "router\\.(get|post|put|patch|delete)",
      description |-> "Router endpoints", glob |-> <<"*.ts", "*.js">>, maxCount |-> 100],
     [pattern |-> "export\\s+(?:default\\s+)?(?:function|const)\\s+\\w+.*(?:React\\.FC|FunctionComponent|Component)",
      description |-> "React components", glob |-> <<"*.tsx", "*.jsx">>, maxCount |-> 100],
     [pattern |-> "export\\s+default\\s+defineComponent",
      description |-> "Vue components", glob |-> <<"*.vue">>, maxCount |-> 100],
     [pattern |-> "@Entity|@Model|model\\s*\\(",
      description |-> "Database models/entities", glob |-> <<"*.ts", "*.js">>, maxCount |-> 50],
     [pattern |-> "Schema\\s*\\(|new\\s+Schema",
      description |-> "Database schemas", glob |-> <<"*.ts", "*.js">>, maxCount |-> 50],
     [pattern |-> "export\\s+(?:default\\s+)?(?:class|function|const|interface|type)\\s+\\w+",
      description |-> "Main exports", glob |-> <<"*.ts", "*.js">>, maxCount |-> 200],
     [pattern |-> "export\\s+default\\s+defineConfig",
      description |-> "Configuration definitions", glob |-> <<"*.config.ts", "*.config.js">>, maxCount |-> 30],
     [pattern |-> "(?:describe|test|it)\\s*\\(['\"]",
      description |-> "Test suites", glob |-> <<"*.test.ts", "*.test.js", "*.spec.ts", "*.spec.js">>, maxCount |-> 50],
     [pattern |-> "type\\s+(?:Query|Mutation|Subscription)\\s*\\{",
      description |-> "GraphQL schemas", glob |-> <<"*.graphql", "*.gql">>, maxCount |-> 30],
     [pattern |-> "add_(?:action|filter)\\s*\\(['\"]",
      description |-> "WordPress hooks", glob |-> <<"*.php">>, maxCount |-> 50],
     [pattern |-> "class\\s+\\w+Error\\s+extends",
      description |-> "Custom error classes", glob |-> <<"*.ts", "*.js">>, maxCount |-> 30],
     [pattern |-> "(?:export\\s+)?(?:const|function)\\s+\\w+Middleware",
      description |-> "Middleware functions", glob |-> <<"*.ts", "*.js">>, maxCount |-> 50]
  >>

\* the patterns of findEntryPoints
entryPointPatterns ==
  << "export\\s+default\\s+(?:class|function)",
     "if\\s*\\(\\s*import\\.meta\\.url\\s*===",
     "if\\s*\\(\\s*require\\.main\\s*===\\s*module",
     "function\\s+main\\s*\\(",
     "async\\s+function\\s+main\\s*\\(" >>

\* the searches of findConfigurationPatterns
configurationSearches ==
  <<
     [pattern |-> "DATABASE_URL|DB_HOST|DB_CONNECTION",
      description |-> "Database configuration", glob |-> <<"*.env*", "*.config.*">>, maxCount |-> 10],
     [pattern |-> "API_KEY|SECRET|TOKEN|AUTH",
      description |-> "Authentication/API configuration", glob |-> <<"*.env*", "*.config.*">>, maxCount |-> 10],
     [pattern |-> "PORT|HOST|BASE_URL",
      description |-> "Server configuration", glob |-> <<"*.env*", "*.config.*">>, maxCount |-> 10]
  >>

SeqToSet(seq) == { seq[k] : k \in 1..Len(seq) }

AllPatterns ==
  SeqToSet(entryPointPatterns)
  \cup { keyPatternSearches[k].pattern : k \in 1..Len(keyPatternSearches) }
  \cup { configurationSearches[k].pattern : k \in 1..Len(configurationSearches) }

\* the stdout lines that parse as match records, as RipgrepMatch values
parseMatches(stdout) ==
  LET kept == SelectSeqBy(stdout, [k \in 1..Len(stdout) |-> stdout[k].kind = "match"])
  IN [k \in 1..Len(kept) |->
        [path |-> kept[k].path, lineNumber |-> kept[k].lineNumber,
         line |-> kept[k].line, match |-> kept[k].match]]

\* a search that reports the failure of the command as a match
searchPatternReportingFailure(rg, pattern) ==
  IF rg[pattern].status = "ok"
  THEN [threw |-> FALSE, matches |-> parseMatches(rg[pattern].stdout), calls |-> 1]
  ELSE [threw |-> FALSE,
        matches |-> << [path |-> "", lineNumber |-> 0, line |-> rg[pattern].status,
                        match |-> ""] >>,
        calls |-> 1]

\* a search without the outer catch: a rejected exec rejects the search
searchPatternRejecting(rg, pattern) ==
  IF rg[pattern].status = "ok"
  THEN [threw |-> FALSE, matches |-> parseMatches(rg[pattern].stdout), calls |-> 1]
  ELSE [threw |-> TRUE, matches |-> <<>>, calls |-> 1]

\* a search that runs the command a second time when the first run fails or
\* finds nothing
searchPatternRetrying(rg, pattern) ==
  IF rg[pattern].status = "ok"
  THEN [threw |-> FALSE, matches |-> parseMatches(rg[pattern].stdout), calls |-> 1]
  ELSE [threw |-> FALSE, matches |-> <<>>, calls |-> 2]

\* searchPattern: threw is FALSE on every path, the catch turns a rejected
\* exec into no matches; calls is the number of times the command is run
searchPattern(rg, pattern) ==
  IF rg[pattern].status = "ok"
  THEN [threw |-> FALSE, matches |-> parseMatches(rg[pattern].stdout), calls |-> 1]
  ELSE [threw |-> FALSE, matches |-> <<>>, calls |-> 1]

\* the pattern, once for every run of the command
Issued(pattern, calls) == [k \in 1..calls |-> pattern]

RECURSIVE collectResults(_, _, _)
\* the loop of discoverKeyPatterns and of findConfigurationPatterns from k
collectResults(rg, searches, k) ==
  IF k > Len(searches) THEN [threw |-> FALSE, value |-> <<>>, issued |-> <<>>]
  ELSE LET r == searchPattern(rg, searches[k].pattern)
           rest == collectResults(rg, searches, k + 1)
           issued == Issued(searches[k].pattern, r.calls)
       IN IF r.threw THEN [threw |-> TRUE, value |-> <<>>, issued |-> issued]
          ELSE IF rest.threw
          THEN [threw |-> TRUE, value |-> <<>>, issued |-> issued \o rest.issued]
          ELSE [threw |-> FALSE,
                value |-> (IF Len(r.matches) > 0
                           THEN << [pattern |-> searches[k].pattern,
                                    description |-> searches[k].description,
                                    matches |-> r.matches] >>
                           ELSE <<>>) \o rest.value,
                issued |-> issued \o rest.issued]

discoverKeyPatterns(rg) == collectResults(rg, keyPatternSearches, 1)

findConfigurationPatterns(rg) == collectResults(rg, configurationSearches, 1)

RECURSIVE entryPointsFrom(_, _, _, _)
\* the loop of findEntryPoints from pattern k, entryPoints collected so far
entryPointsFrom(rg, k, entryPoints, issued) ==
  IF k > Len(entryPointPatterns)
  THEN [threw |-> FALSE, value |-> entryPoints, issued |-> issued]
  ELSE LET r == searchPattern(rg, entryPointPatterns[k])
           now == issued \o Issued(entryPointPatterns[k], r.calls)
       IN IF r.threw THEN [threw |-> TRUE, value |-> <<>>, issued |-> now]
          ELSE entryPointsFrom(rg, k + 1,
                 SetAddAll(entryPoints, [i \in 1..Len(r.matches) |-> r.matches[i].path]),
                 now)

findEntryPoints(rg) == entryPointsFrom(rg, 1, <<>>, <<>>)

NoInsights == [entryPoints |-> <<>>, patterns |-> <<>>, configPatterns |-> <<>>]

\* Promise.all of the three; the catch answers a rejection by NoInsights
discoverCodeInsights(rg) ==
  LET e == findEntryPoints(rg)
      p == discoverKeyPatterns(rg)
      c == findConfigurationPatterns(rg)
  IN IF e.threw \/ p.threw \/ c.threw THEN NoInsights
     ELSE [entryPoints |-> e.value, patterns |-> p.value, configPatterns |-> c.value]

\* how often the command was run with each pattern while the three
\* collectors ran; Promise.all leaves the order among them open
invocations(rg) ==
  LET issued == findEntryPoints(rg).issued
                \o discoverKeyPatterns(rg).issued
                \o findConfigurationPatterns(rg).issued
  IN [p \in AllPatterns |-> Cardinality({ k \in 1..Len(issued) : issued[k] = p })]

(***************************************************************************)
(* indexer.ts: module grouping.  A module's importance, the mean of its     *)
(* files' importances, is kept as the pair (sum of tenths, number of files).*)
(***************************************************************************)
purposeMap ==
  [src |-> "Source code", lib |-> "Library code", components |-> "UI components",
   pages |-> "Page components", routes |-> "Routing logic", api |-> "API endpoints",
   services |-> "Business logic services", utils |-> "Utility functions",
   helpers |-> "Helper functions", hooks |-> "React hooks",
   stores |-> "State management", models |-> "Data models",
   schemas |-> "Data schemas", types |-> "Type definitions",
   config |-> "Configuration", commands |-> "CLI commands",
   controllers |-> "Request controllers", middleware |-> "Middleware functions",
   tests |-> "Test files", docs |-> "Documentation"]

inferModulePurpose(dirPath, files) ==
  LET dirName == ToLowerCase(Basename(dirPath))
  IN IF dirName \in DOMAIN purposeMap THEN purposeMap[dirName]
     ELSE IF \E k \in 1..Len(files) : \E i \in 1..Len(files[k].keywords) :
               Includes(ToLowerCase(files[k].keywords[i]), "component")
          THEN "Component library"
     ELSE IF \A k \in 1..Len(files) : files[k].type = "test" THEN "Test suite"
     ELSE IF \A k \in 1..Len(files) : files[k].type = "config" THEN "Configuration files"
     ELSE "Module"

RECURSIVE SumImportance(_)
SumImportance(files) ==
  IF files = <<>> THEN 0 ELSE Head(files).importance + SumImportance(Tail(files))

RECURSIVE FlattenKeywords(_)
FlattenKeywords(files) ==
  IF files = <<>> THEN <<>> ELSE Head(files).keywords \o FlattenKeywords(Tail(files))

\* a.importance >= b.importance on means kept as pairs
ImportanceGeq(a, b) == a.sum * b.n >= b.sum * a.n

RECURSIVE insertSorted(_, _)
\* m goes behind every module that is at least as important (a stable sort)
insertSorted(sorted, m) ==
  IF sorted = <<>> THEN << m >>
  ELSE IF ImportanceGeq(Head(sorted).importance, m.importance)
       THEN << Head(sorted) >> \o insertSorted(Tail(sorted), m)
       ELSE << m >> \o sorted

\* the modules left in the order of their first file
sortByImportanceSkipped(modules, sorted) == modules

RECURSIVE sortByImportance(_, _)
\* modules.sort((a, b) => b.importance - a.importance)
sortByImportance(modules, sorted) ==
  IF modules = <<>> THEN sorted
  ELSE sortByImportance(Tail(modules), insertSorted(sorted, Head(modules)))

\* a grouping that lists the files of a module by their base names
moduleOfBasenames(dirPath, fileMetadata) ==
  LET files == SelectSeqBy(fileMetadata,
                 [k \in 1..Len(fileMetadata) |-> Dirname(fileMetadata[k].path) = dirPath])
  IN IF Len(files) < 2 /\ dirPath # "." THEN <<>>
     ELSE << [path |-> dirPath,
              purpose |-> inferModulePurpose(dirPath, files),
              keywords |-> Slice(SetAddAll(<<>>, FlattenKeywords(files)), 30),
              files |-> [k \in 1..Len(files) |-> Basename(files[k].path)],
              importance |-> [sum |-> SumImportance(files), n |-> Len(files)]] >>

\* the module of directory dirPath, none when it holds too few files
moduleOf(dirPath, fileMetadata) ==
  LET files == SelectSeqBy(fileMetadata,
                 [k \in 1..Len(fileMetadata) |-> Dirname(fileMetadata[k].path) = dirPath])
  IN IF Len(files) < 2 /\ dirPath # "." THEN <<>>
     ELSE << [path |-> dirPath,
              purpose |-> inferModulePurpose(dirPath, files),
              keywords |-> Slice(SetAddAll(<<>>, FlattenKeywords(files)), 30),
              files |-> [k \in 1..Len(files) |-> files[k].path],
              importance |-> [sum |-> SumImportance(files), n |-> Len(files)]] >>

RECURSIVE modulesOf(_, _)
modulesOf(dirs, fileMetadata) ==
  IF dirs = <<>> THEN <<>>
  ELSE moduleOf(Head(dirs), fileMetadata) \o modulesOf(Tail(dirs), fileMetadata)

buildModuleMap(fileMetadata) ==
  LET dirs == SetAddAll(<<>>, [k \in 1..Len(fileMetadata) |-> Dirname(fileMetadata[k].path)])
  IN sortByImportance(modulesOf(dirs, fileMetadata), <<>>)

(***************************************************************************)
(* indexer.ts: discoverWorkspacePackages.  Every globby call of one         *)
(* discovery lists its matches in the order `order` gives the paths of the  *)
(* tree; the library does not fix that order.                               *)
(***************************************************************************)
WhiteSpace == { " ", "\t", "\r", "\n" }

RECURSIVE SplitLinesFrom(_, _, _)
SplitLinesFrom(s, i, acc) ==
  IF i > Len(s) THEN << acc >>
  ELSE IF Ch(s, i) = "\n" THEN << acc >> \o SplitLinesFrom(s, i + 1, "")
  ELSE SplitLinesFrom(s, i + 1, acc \o Ch(s, i))

\* s.split("\n")
SplitLines(s) == SplitLinesFrom(s, 1, "")

RECURSIVE Trim(_)
\* s.trim()
Trim(s) ==
  IF s = "" THEN s
  ELSE IF Ch(s, 1) \in WhiteSpace THEN Trim(SubSeq(s, 2, Len(s)))
  ELSE IF Ch(s, Len(s)) \in WhiteSpace THEN Trim(SubSeq(s, 1, Len(s) - 1))
  ELSE s

Quotes == { "'", "\"" }

RECURSIVE RunOf(_, _, _)
\* the end of the longest run of characters of the class from i on (i - 1 if none)
RunOf(s, i, class) ==
  IF i <= Len(s) /\ Ch(s, i) \in class THEN RunOf(s, i + 1, class) ELSE i - 1

RECURSIVE RunOutside(_, _, _)
RunOutside(s, i, class) ==
  IF i <= Len(s) /\ Ch(s, i) \notin class THEN RunOutside(s, i + 1, class) ELSE i - 1

RECURSIVE packageDirFrom(_, _)
\* the match of the pattern of line 250 on a line that starts with "-", with
\* the white space after the dash ending at position spaceEnd: the greedy
\* quantifiers give back white space until the rest of the pattern matches
packageDirFrom(line, spaceEnd) ==
  LET afterQuote == IF spaceEnd < Len(line) /\ Ch(line, spaceEnd + 1) \in Quotes
                    THEN spaceEnd + 2 ELSE spaceEnd + 1
      quotedEnd == RunOutside(line, afterQuote, Quotes)
      bareEnd == RunOutside(line, spaceEnd + 1, Quotes)
      closing(groupEnd) == IF groupEnd < Len(line) /\ Ch(line, groupEnd + 1) \in Quotes
                           THEN groupEnd + 1 ELSE groupEnd
  IN IF quotedEnd >= afterQuote
     THEN SubSeq(line, afterQuote, quotedEnd)
          \o SubSeq(line, closing(quotedEnd) + 1, Len(line))
     ELSE IF bareEnd >= spaceEnd + 1
     THEN SubSeq(line, spaceEnd + 1, bareEnd)
          \o SubSeq(line, closing(bareEnd) + 1, Len(line))
     ELSE IF spaceEnd > 1 THEN packageDirFrom(line, spaceEnd - 1)
     ELSE line

\* line.replace(/^-\s*['"]?([^'"]+)['"]?/, "$1").trim(): the pattern is
\* anchored at the first character of the line as it stands in the file
packageDir(line) ==
  IF StartsWith(line, "-")
  THEN Trim(packageDirFrom(line, RunOf(line, 2, WhiteSpace)))
  ELSE Trim(line)

\* lines 247-250
packageDirs(content) ==
  LET lines == SelectSeq(SplitLines(content), LAMBDA line : StartsWith(Trim(line), "-"))
  IN [k \in 1..Len(lines) |-> packageDir(lines[k])]

\* globby(patterns, {cwd, absolute: false}): the files that match a pattern
globbyMatching(files, patterns, order) ==
  SelectSeq(order, LAMBDA p :
    /\ IsFile(files, p)
    /\ ~HasDotSegment(p)
    /\ \E k \in 1..Len(patterns) : GlobMatch(patterns[k], p))

RECURSIVE collectPackages(_, _, _, _, _)
\* the loops of lines 222-237 and 258-275 over the manifests globby found;
\* the loop of the second block passes over a directory already listed.  With
\* guarded FALSE a manifest that does not parse ends the loop.
collectPackages(files, pkgPaths, packages, skipListed, guarded) ==
  IF pkgPaths = <<>> THEN packages
  ELSE LET pkgPath == Head(pkgPaths)
           relativeDir == Dirname(pkgPath)
           pkg == parseManifest(files, pkgPath)
       IN IF skipListed /\ \E k \in 1..Len(packages) :
                              packages[k].relativeDir = relativeDir
          THEN collectPackages(files, Tail(pkgPaths), packages, skipListed, guarded)
          ELSE IF pkg.valid
          THEN collectPackages(files, Tail(pkgPaths),
                 Append(packages,
                        [name |-> OrElse(pkg.name, relativeDir),
                         version |-> pkg.version,
                         relativeDir |-> relativeDir,
                         description |-> pkg.description,
                         isWorkspaceRoot |-> FALSE]),
                 skipListed, guarded)
          ELSE IF guarded
          THEN collectPackages(files, Tail(pkgPaths), packages, skipListed, guarded)
          ELSE packages

\* lines 198-241: the root manifest and the workspaces it declares
rootPackages(files, order, guarded) ==
  LET rootPkg == parseManifest(files, "package.json")
  IN IF existsSync(files, "package.json") /\ rootPkg.valid
     THEN collectPackages(files,
            globbyMatching(files,
              [k \in 1..Len(rootPkg.workspaces) |->
                 rootPkg.workspaces[k] \o "/package.json"], order),
            << [name |-> OrElse(rootPkg.name, "root"),
                version |-> rootPkg.version,
                relativeDir |-> ".",
                description |-> rootPkg.description,
                isWorkspaceRoot |-> TRUE] >>,
            FALSE, guarded)
     ELSE <<>>

RECURSIVE pnpmPackages(_, _, _, _, _)
\* lines 252-277: one globby call for each directory of pnpm-workspace.yaml
pnpmPackages(files, dirs, packages, order, guarded) ==
  IF dirs = <<>> THEN packages
  ELSE pnpmPackages(files, Tail(dirs),
         collectPackages(files,
           globbyMatching(files, << Head(dirs) \o "/package.json" >>, order),
           packages, TRUE, guarded),
         order, guarded)

discoverWith(files, order, guarded) ==
  LET packages == rootPackages(files, order, guarded)
      declaration == readFileSync(files, "pnpm-workspace.yaml")
  IN IF existsSync(files, "pnpm-workspace.yaml") /\ declaration.ok
     THEN pnpmPackages(files, packageDirs(declaration.content), packages, order, guarded)
     ELSE packages

\* a discovery whose loops are not guarded against a manifest that fails
discoverWorkspacePackagesUnguarded(files, order) == discoverWith(files, order, FALSE)

discoverWorkspacePackages(files, order) == discoverWith(files, order, TRUE)

\* the orders in which a globby call may list the manifests of the tree
manifestOrders(files) ==
  LET paths == { f.path : f \in { g \in files : Basename(g.path) = "package.json" } }
  IN { order \in [1..Cardinality(paths) -> paths] :
         \A i, j \in 1..Cardinality(paths) : i # j => order[i] # order[j] }

(***************************************************************************)
(* special-files.ts.  The host decides two things the code leaves open:     *)
(* whether the filesystem tells names apart by case, and whether the module *)
(* system of the build defines require, which tryReadFile calls for its     *)
(* statSync.                                                                *)
(***************************************************************************)
SPECIAL_FILE_PATTERNS ==
  << [pattern |-> "CLAUDE.md", type |-> "claude-rules"],
     [pattern |-> ".cursorrules", type |-> "cursor-rules"],
     [pattern |-> ".github/copilot-instructions.md", type |-> "copilot-instructions"],
     [pattern |-> "README.md", type |-> "readme"],
     [pattern |-> "readme.md", type |-> "readme"] >>

\* MAX_FILE_SIZE of special-files.ts
SPECIAL_MAX_FILE_SIZE == 100 * 1024

\* the host's filesystem takes the names p and q for one
sameName(host, p, q) ==
  IF host.caseInsensitive THEN ToLowerCase(p) = ToLowerCase(q) ELSE p = q

isFileOn(host, files, p) == \E f \in files : sameName(host, f.path, p)

fileOn(host, files, p) == CHOOSE f \in files : sameName(host, f.path, p)

under(host, f, dir) ==
  /\ Len(f.path) > Len(dir) + 1
  /\ sameName(host, SubSeq(f.path, 1, Len(dir) + 1), dir \o "/")

existsSyncOn(host, files, p) ==
  isFileOn(host, files, p) \/ \E f \in files : under(host, f, p)

\* the orders in which readdirSync may list the entries of dir
readdirSync(host, files, dir) ==
  LET names == { Split(SubSeq(f.path, Len(dir) + 2, Len(f.path)))[1] :
                   f \in { g \in files : under(host, g, dir) } }
  IN { listing \in [1..Cardinality(names) -> names] :
         \A i, j \in 1..Cardinality(names) : i # j => listing[i] # listing[j] }

\* null and "" are both falsy to the callers, which only test `if (content)`;
\* a directory passes statSync and makes readFileSync throw
tryReadFile(host, files, p) ==
  IF ~host.requireDefined \/ ~isFileOn(host, files, p) THEN ""
  ELSE LET f == fileOn(host, files, p)
       IN IF ~f.statOk \/ f.size > SPECIAL_MAX_FILE_SIZE \/ ~f.readable
          THEN ""
          ELSE f.content

findSpecialFiles(host, files, listing) ==
  LET candidates ==
        [k \in 1..Len(SPECIAL_FILE_PATTERNS) |->
           [path |-> SPECIAL_FILE_PATTERNS[k].pattern,
            type |-> SPECIAL_FILE_PATTERNS[k].type,
            content |->
              IF existsSyncOn(host, files, SPECIAL_FILE_PATTERNS[k].pattern)
              THEN tryReadFile(host, files, SPECIAL_FILE_PATTERNS[k].pattern)
              ELSE ""]]
      rules ==
        [k \in 1..Len(listing) |->
           [path |-> ".cursor/rules/" \o listing[k],
            type |-> "cursor-rules",
            content |-> tryReadFile(host, files, ".cursor/rules/" \o listing[k])]]
  IN SelectSeq(candidates, LAMBDA e : e.content # "")
     \o SelectSeq(rules, LAMBDA e : e.content # "")

(***************************************************************************)
(* indexer.ts: summarizeIndexForAI.  Each operator yields the strings one   *)
(* section pushes onto `lines`; confidence is in tenths.                    *)
(***************************************************************************)
RECURSIVE Join(_, _)
\* array.join(sep)
Join(strings, sep) ==
  IF strings = <<>> THEN ""
  ELSE IF Len(strings) = 1 THEN strings[1]
  ELSE strings[1] \o sep \o Join(Tail(strings), sep)

RECURSIVE Concat(_)
\* the sequences of a sequence, one after the other
Concat(seqs) == IF seqs = <<>> THEN <<>> ELSE Head(seqs) \o Concat(Tail(seqs))

\* lines 396-405
stackLines(detectedStack) ==
  IF Len(detectedStack) > 0
  THEN << "## Detected Stack" >>
       \o [k \in 1..Len(detectedStack) |->
             LET tech == detectedStack[k]
             IN "- " \o tech.name
                \o (IF tech.version # "" THEN " " \o tech.version ELSE "")
                \o " [" \o tech.category \o "]"
                \o (IF tech.confidence < 10
                    THEN " (" \o ToString(tech.confidence * 10) \o "% confidence)"
                    ELSE "")]
       \o << "" >>
  ELSE <<>>

\* lines 407-415
workspaceLines(packages) ==
  IF Len(packages) > 0
  THEN << "## Workspace Packages" >>
       \o [k \in 1..Len(packages) |->
             "- " \o packages[k].name \o " (" \o packages[k].relativeDir \o ")"
             \o (IF packages[k].description # ""
                 THEN " - " \o packages[k].description ELSE "")]
       \o << "" >>
  ELSE <<>>

\* the fence around the content of a special file: three grave accents in
\* the source, a character a string of this language cannot hold
Fence == "~~~"

\* lines 417-427
specialFileLines(files) ==
  IF Len(files) > 0
  THEN << "## Special Documentation Files" >>
       \o Concat([k \in 1..Len(files) |->
                    << "### " \o files[k].path \o " (" \o files[k].type \o ")",
                       Fence, files[k].content, Fence, "" >>])
  ELSE <<>>

\* lines 433-440
entryPointLines(entryPoints) ==
  IF Len(entryPoints) > 0
  THEN << "## Entry Points" >>
       \o [k \in 1..Min(10, Len(entryPoints)) |-> "- " \o entryPoints[k]]
       \o << "" >>
  ELSE <<>>

\* the paths of the matches in the order of their first match
matchedFiles(matches) == SetAddAll(<<>>, [k \in 1..Len(matches) |-> matches[k].path])

matchesIn(matches, filePath) == SelectSeq(matches, LAMBDA m : m.path = filePath)

RECURSIVE insertByCount(_, _, _)
\* filePath goes behind every file with at least as many matches
insertByCount(sorted, filePath, matches) ==
  IF sorted = <<>> THEN << filePath >>
  ELSE IF Len(matchesIn(matches, Head(sorted))) >= Len(matchesIn(matches, filePath))
       THEN << Head(sorted) >> \o insertByCount(Tail(sorted), filePath, matches)
       ELSE << filePath >> \o sorted

RECURSIVE sortByCount(_, _, _)
\* .sort((a, b) => b[1].length - a[1].length)
sortByCount(filePaths, sorted, matches) ==
  IF filePaths = <<>> THEN sorted
  ELSE sortByCount(Tail(filePaths), insertByCount(sorted, Head(filePaths), matches),
                   matches)

\* lines 462-466: the trimmed line cut at 80 characters, marked when the
\* line is longer
previewLine(m) ==
  "    L" \o ToString(m.lineNumber) \o ": "
  \o SubSeq(Trim(m.line), 1, Min(80, Len(Trim(m.line))))
  \o (IF Len(m.line) > 80 THEN "..." ELSE "")

\* lines 445-469: one pattern of the battery
patternLines(pattern) ==
  LET sortedFiles == Slice(sortByCount(matchedFiles(pattern.matches), <<>>,
                                       pattern.matches), 5)
  IN << "### " \o pattern.description
        \o " (" \o ToString(Len(pattern.matches)) \o " matches)" >>
     \o Concat([k \in 1..Len(sortedFiles) |->
                  LET matches == matchesIn(pattern.matches, sortedFiles[k])
                  IN << "  - " \o sortedFiles[k]
                        \o " (" \o ToString(Len(matches)) \o " occurrences)" >>
                     \o [i \in 1..Min(3, Len(matches)) |-> previewLine(matches[i])]])
     \o << "" >>

\* lines 442-471
keyPatternLines(patterns) ==
  IF Len(patterns) > 0
  THEN << "## Key Code Patterns" >>
       \o Concat([k \in 1..Len(patterns) |-> patternLines(patterns[k])])
  ELSE <<>>

\* a configuration section that shows the matched lines as well
configurationLinesWithPreview(found) ==
  IF Len(found) > 0
  THEN << "## Configuration Patterns" >>
       \o Concat([k \in 1..Len(found) |->
                    << "### " \o found[k].description >>
                    \o [i \in 1..Len(found[k].matches) |->
                          "  - " \o found[k].matches[i].path \o ": "
                          \o found[k].matches[i].line]
                    \o << "" >>])
  ELSE <<>>

\* lines 473-484: the files of each configuration pattern, each once
configurationLines(found) ==
  IF Len(found) > 0
  THEN << "## Configuration Patterns" >>
       \o Concat([k \in 1..Len(found) |->
                    LET uniqueFiles == matchedFiles(found[k].matches)
                    IN << "### " \o found[k].description >>
                       \o [i \in 1..Len(uniqueFiles) |-> "  - " \o uniqueFiles[i]]
                       \o << "" >>])
  ELSE <<>>

\* lines 487-496
moduleLines(modules) ==
  LET topModules == Slice(modules, 10)
  IN IF Len(topModules) > 0
     THEN << "## Key Modules" >>
          \o [k \in 1..Len(topModules) |->
                "- " \o topModules[k].path \o ": " \o topModules[k].purpose
                \o " | Keywords: " \o Join(Slice(topModules[k].keywords, 5), ", ")]
          \o << "" >>
     ELSE <<>>

\* lines 498-505
importantFileLines(importantPaths) ==
  IF Len(importantPaths) > 0
  THEN << "## Important Files" >>
       \o [k \in 1..Min(15, Len(importantPaths)) |-> "- " \o importantPaths[k]]
       \o << "" >>
  ELSE <<>>

\* lines 507-508
footerLines(index) ==
  << "Total indexed files: " \o ToString(index.totalFiles),
     "Indexed at: " \o index.indexedAt >>

summarizeIndexForAI(index) ==
  Join(<< "# Repository Index Summary\n" >>
       \o stackLines(index.detectedStack)
       \o workspaceLines(index.workspacePackages)
       \o specialFileLines(index.specialFiles)
       \o entryPointLines(index.codeInsights.entryPoints)
       \o keyPatternLines(index.codeInsights.patterns)
       \o configurationLines(index.codeInsights.configPatterns)
       \o moduleLines(index.modules)
       \o importantFileLines(index.importantPaths)
       \o footerLines(index),
       "\n")

(***************************************************************************)
(* ripgrep-search.ts: the command line of searchPattern.  exec hands the   *)
(* line to /bin/sh -c; sh is the part of the shell's grammar that the      *)
(* lines built here use: blanks, backslash, the two quotes, |, ( and ).    *)
(* Words are taken before pathname expansion, which leaves a word as it is *)
(* when no file name matches it.                                           *)
(***************************************************************************)
\* the args array; glob <<>> and maxCount 0 stand for options left out
searchArgs(pattern, options) ==
  << "rg", "--json", "--hidden", "--glob=!.git/*", "--glob=!node_modules/*",
     "--glob=!dist/*", "--glob=!build/*", "--glob=!coverage/*", "--glob=!.next/*" >>
  \o [k \in 1..Len(options.glob) |-> "--glob=" \o options.glob[k]]
  \o (IF options.maxCount # 0
      THEN << "--max-count=" \o ToString(options.maxCount) >> ELSE <<>>)
  \o (IF ~options.caseSensitive THEN << "-i" >> ELSE <<>>)
  \o << "--", pattern >>

\* args.join(" ")
commandLine(args) == Join(args, " ")

\* the shell before the first character: no word, no command, at character 1
ShStart ==
  [mode |-> "plain", word |-> "", inWord |-> FALSE, argv |-> <<>>,
   commands |-> <<>>, error |-> FALSE, next |-> 1]

\* the word read so far joins the words of the command being read
endWord(st) ==
  IF st.inWord
  THEN [st EXCEPT !.argv = Append(@, st.word), !.word = "", !.inWord = FALSE]
  ELSE st

\* the command being read joins the pipeline; one without words is an error
endCommand(st) ==
  LET e == endWord(st)
  IN IF e.argv = <<>> THEN [e EXCEPT !.error = TRUE]
     ELSE [e EXCEPT !.commands = Append(@, e.argv), !.argv = <<>>]

\* c joins the word being read, and reading goes on after `used` characters
takeChar(st, c, used) ==
  [st EXCEPT !.word = @ \o c, !.inWord = TRUE, !.next = @ + used]

\* the shell reads the character at st.next
shStep(command, st) ==
  IF st.error \/ st.next > Len(command) THEN st
  ELSE LET c == Ch(command, st.next)
           more == st.next < Len(command)
           following == Ch(command, st.next + 1)
       IN IF st.mode = "single"
          THEN IF c = "'" THEN [st EXCEPT !.mode = "plain", !.next = @ + 1]
               ELSE takeChar(st, c, 1)
          ELSE IF st.mode = "double"
          THEN IF c = "\"" THEN [st EXCEPT !.mode = "plain", !.next = @ + 1]
               ELSE IF c = "\\" /\ more /\ following \in { "\"", "\\", "$" }
               THEN takeChar(st, following, 2)
               ELSE takeChar(st, c, 1)
          ELSE IF c = " " THEN [endWord(st) EXCEPT !.next = @ + 1]
          ELSE IF c = "\\"
          THEN IF more THEN takeChar(st, following, 2) ELSE takeChar(st, c, 1)
          ELSE IF c = "'"
          THEN [st EXCEPT !.mode = "single", !.inWord = TRUE, !.next = @ + 1]
          ELSE IF c = "\""
          THEN [st EXCEPT !.mode = "double", !.inWord = TRUE, !.next = @ + 1]
          ELSE IF c = "|" THEN [endCommand(st) EXCEPT !.next = @ + 1]
          ELSE IF c \in { "(", ")" } THEN [st EXCEPT !.error = TRUE]
          ELSE takeChar(st, c, 1)

RECURSIVE shSteps(_, _, _)
\* n steps of the shell, halved so that long lines are read in few levels
shSteps(command, st, n) ==
  IF n = 0 THEN st
  ELSE IF n = 1 THEN shStep(command, st)
  ELSE LET half == shSteps(command, st, n \div 2)
       IN IF half.error THEN half ELSE shSteps(command, half, n - (n \div 2))

\* what sh -c makes of the line: a syntax error, after which nothing runs, or
\* the commands of a pipeline, each with the words it is started with
sh(command) ==
  LET read == shSteps(command, ShStart, Len(command))
      st == IF read.error THEN read
            ELSE IF read.mode # "plain" THEN [read EXCEPT !.error = TRUE]
            ELSE endCommand(read)
  IN [error |-> st.error, commands |-> IF st.error THEN <<>> ELSE st.commands]

(***************************************************************************)
(* providers.ts, config.ts, credentials.ts, user-config.ts and              *)
(* set-provider.ts: the provider catalog, the stored user configuration and *)
(* the command that selects the default provider.                           *)
(***************************************************************************)
ProviderCatalog ==
  << [id |-> "anthropic", defaultModel |-> "claude-sonnet-4-5",
      models |-> << "claude-sonnet-4-20250514", "claude-sonnet-4-0",
                    "claude-sonnet-4-5-20250929", "claude-sonnet-4-5" >>],
     [id |-> "gemini", defaultModel |-> "gemini-3-pro-preview",
      models |-> << "gemini-2.0-flash", "gemini-2.0-flash-lite", "gemini-2.5-flash",
                    "gemini-2.5-pro", "gemini-2.5-pro-preview-05-06",
                    "gemini-2.5-pro-preview-06-05", "gemini-3-pro-preview" >>] >>

\* the catalog entries with this id: at most one, none for an unknown provider
getProviderMetadata(providerId) ==
  SelectSeq(ProviderCatalog, LAMBDA entry : entry.id = providerId)

\* a configuration object is a function from its keys to their values; a key
\* that is not in the domain is undefined, which every test of the code reads
\* as the empty string does
EmptyConfig == [key \in {} |-> ""]

Get(object, key) == IF key \in DOMAIN object THEN object[key] ELSE ""

Without(object, key) == [k \in DOMAIN object \ { key } |-> object[k]]

\* { ...object, ...patch }
Spread(object, patch) ==
  [k \in DOMAIN object \cup DOMAIN patch |->
     IF k \in DOMAIN patch THEN patch[k] ELSE object[k]]

normalizeModelForProvider(providerId, modelId) ==
  LET metadata == getProviderMetadata(providerId)
  IN IF metadata = <<>>
     THEN [model |-> modelId, reason |-> "unknown-provider"]
     ELSE IF modelId # "" /\ SeqContains(metadata[1].models, modelId)
     THEN [model |-> modelId, reason |-> "match"]
     ELSE [model |-> metadata[1].defaultModel,
           reason |-> IF modelId # "" THEN "fallback" ELSE "default"]

\* whether UserConfigSchema accepts the value
UserConfigSchema(value) ==
  /\ "defaultProvider" \in DOMAIN value
       => getProviderMetadata(value["defaultProvider"]) # <<>>
  /\ "defaultModel" \in DOMAIN value => value["defaultModel"] # ""
  /\ Get(value, "defaultProvider") # ""
       => LET normalized ==
                normalizeModelForProvider(value["defaultProvider"],
                                          Get(value, "defaultModel"))
          IN /\ normalized.reason # "unknown-provider"
             /\ Get(value, "defaultModel") # ""
             /\ normalized.reason # "fallback"

\* message: whether onAutoCorrect was called
normalizeConfigForWrite(userConfig) ==
  LET provider == Get(userConfig, "defaultProvider")
      model == Get(userConfig, "defaultModel")
      resolution == normalizeModelForProvider(provider, model)
      reset == /\ resolution.reason # "unknown-provider"
               /\ resolution.model # ""
               /\ (model = "" \/ model # resolution.model)
      next == IF provider = ""
              THEN IF model # "" THEN Without(userConfig, "defaultModel")
                                 ELSE userConfig
              ELSE IF reset
              THEN Spread(userConfig, [defaultModel |-> resolution.model])
              ELSE userConfig
  IN [threw |-> ~UserConfigSchema(next),
      config |-> next,
      message |-> IF provider = "" THEN model # "" ELSE reset]

\* the configuration file: missing, not JSON, or a stored object
NoConfigFile == [exists |-> FALSE, json |-> FALSE, value |-> EmptyConfig]
BrokenConfigFile == [exists |-> TRUE, json |-> FALSE, value |-> EmptyConfig]
ConfigFile(value) == [exists |-> TRUE, json |-> TRUE, value |-> value]

readUserConfig(file) ==
  IF ~file.exists THEN [threw |-> FALSE, config |-> EmptyConfig]
  ELSE IF ~file.json THEN [threw |-> TRUE, config |-> EmptyConfig]
  ELSE IF UserConfigSchema(file.value) THEN [threw |-> FALSE, config |-> file.value]
  ELSE LET correction == normalizeConfigForWrite(file.value)
       IN IF ~correction.threw /\ correction.message
          THEN [threw |-> FALSE, config |-> correction.config]
          ELSE [threw |-> TRUE, config |-> EmptyConfig]

\* the patch wins over the stored values, and the stored file is the patch
\* merged into what was read
updateUserConfigMerging(file, patch, merged) ==
  LET current == readUserConfig(file)
      normalized == normalizeConfigForWrite(merged)
  IN IF current.threw \/ normalized.threw
     THEN [threw |-> TRUE, file |-> file]
     ELSE [threw |-> FALSE, file |-> ConfigFile(normalized.config)]

\* a merge in which the stored values win over the patch
updateUserConfigKeepingStored(file, patch) ==
  updateUserConfigMerging(file, patch, Spread(patch, readUserConfig(file).config))

updateUserConfig(file, patch) ==
  updateUserConfigMerging(file, patch, Spread(readUserConfig(file).config, patch))

\* the credentials file: missing, not JSON, or the provider of each entry
NoCredentialsFile == [exists |-> FALSE, json |-> FALSE, entries |-> <<>>]
BrokenCredentialsFile == [exists |-> TRUE, json |-> FALSE, entries |-> <<>>]
CredentialsFile(entries) == [exists |-> TRUE, json |-> TRUE, entries |-> entries]

RECURSIVE credentialProvidersFrom(_, _, _, _)
credentialProvidersFrom(entries, k, seen, providers) ==
  IF k > Len(entries) THEN providers
  ELSE LET providerId == ToLowerCase(Trim(entries[k]))
           metadata == getProviderMetadata(providerId)
       IN IF providerId = "" \/ providerId \in seen
          THEN credentialProvidersFrom(entries, k + 1, seen, providers)
          ELSE credentialProvidersFrom(entries, k + 1, seen \cup { providerId },
                                       providers \o metadata)

loadCredentialProviders(file) ==
  IF ~file.exists THEN [threw |-> FALSE, providers |-> <<>>]
  ELSE IF ~file.json THEN [threw |-> TRUE, providers |-> <<>>]
  ELSE [threw |-> FALSE,
        providers |-> credentialProvidersFrom(file.entries, 1, {}, <<>>)]

\* one call of the command: how it ended and the configuration file it leaves
runSetProviderCommand(file, credentials, argv, interactive, chosenProviderId) ==
  LET loaded == loadCredentialProviders(credentials)
      userConfig == readUserConfig(file)
      selectedProvider ==
        SelectSeq(loaded.providers, LAMBDA provider : provider.id = chosenProviderId)
      persisted ==
        updateUserConfig(file, [defaultProvider |-> selectedProvider[1].id,
                                defaultModel |-> selectedProvider[1].defaultModel])
      Thrown(message) == [outcome |-> message, file |-> file]
  IN IF SeqContains(argv, "--help") \/ SeqContains(argv, "-h")
     THEN [outcome |-> "help", file |-> file]
     ELSE IF ~interactive
     THEN Thrown("Provider selection requires an interactive terminal.")
     ELSE IF loaded.threw THEN Thrown("Credentials file is not valid JSON")
     ELSE IF loaded.providers = <<>> THEN Thrown("No providers found")
     ELSE IF userConfig.threw THEN Thrown("Failed to read config file")
     ELSE IF selectedProvider = <<>> THEN Thrown("Unknown provider selection")
     ELSE IF persisted.threw THEN Thrown("Failed to persist selection")
     ELSE [outcome |-> "set", file |-> persisted.file]

(***************************************************************************)
(* indexer.ts: buildRepositoryIndex as a state machine.                     *)
(***************************************************************************)
MAX_FILE_SIZE == 500 * 1024
MAX_KEYWORD_CONTENT_SIZE == 50 * 1024

VARIABLES
  tree,               \* the files of targetDir
  config,             \* ignorePatterns, maxFiles, includeTests
  rg,                 \* the external search tool: pattern -> outcome
  platform,           \* the filesystem and the module system of the host
  workspacePackages,
  specialFiles,
  rgCalls,            \* how often rg was run with each pattern in this run
  digest,             \* the text summarizeIndexForAI returned, empty until then
  pc,                 \* where the run is
  detectedStack,
  filterContext,
  allIgnorePatterns,
  allFiles,           \* the paths globby returned
  pending,            \* those the loop has not reached yet
  fileMetadata,
  importantPaths,
  processedCount,
  capWarnings,        \* number of "Reached max files limit" warnings
  modules,
  index,              \* the returned RepositoryIndex, NoIndex until then
  firstIndex,         \* the index of an earlier run over the same tree
  configFile,         \* ~/.contextcode/config.json
  credentialsFile,    \* ~/.contextcode/credentials.json
  selection,          \* the last call that set a provider: whom, and over what
  commandOutcome,     \* how the last call of the command ended
  extraction,         \* the last direct call of extractKeywordsFromFile
  filtering,          \* the last direct call of shouldIgnorePath
  execution           \* the last direct call of searchPattern

vars ==
  << tree, config, rg, platform, workspacePackages, specialFiles, rgCalls, digest,
     pc, detectedStack, filterContext, allIgnorePatterns,
     allFiles, pending, fileMetadata, importantPaths, processedCount,
     capWarnings, modules, index, firstIndex,
     configFile, credentialsFile, selection, commandOutcome, extraction,
     filtering, execution >>

NoIndex == [returned |-> FALSE]

\* the command has not been run
NoCalls == [p \in AllPatterns |-> 0]

\* new Date().toISOString() at the return
Now == "2025-01-01T00:00:00.000Z"

\* a case-sensitive filesystem and a module system that provides require
PosixNode == [caseInsensitive |-> FALSE, requireDefined |-> TRUE]

File(path, size, content) ==
  [path |-> path, size |-> size, statOk |-> TRUE, readable |-> TRUE,
   content |-> content, manifest |-> NoManifest, found |-> NoMatches]

\* a run starts over the tree with nothing computed yet
Fresh ==
  /\ pc = "start"
  /\ detectedStack = <<>>
  /\ filterContext = [isWordPressTheme |-> FALSE, hasNodeModules |-> FALSE,
                      detectedStack |-> <<>>]
  /\ allIgnorePatterns = <<>>
  /\ allFiles = {}
  /\ pending = {}
  /\ fileMetadata = <<>>
  /\ importantPaths = <<>>
  /\ processedCount = 0
  /\ capWarnings = 0
  /\ modules = <<>>
  /\ index = NoIndex
  /\ workspacePackages = <<>>
  /\ specialFiles = <<>>
  /\ rgCalls = NoCalls
  /\ digest = ""

\* a test that wants the entry to be certain
someWordPressCertain(stack) ==
  \E k \in 1..Len(stack) :
    /\ stack[k].name = "WordPress Theme" \/ stack[k].name = "WordPress"
    /\ stack[k].confidence = 10

\* lines 43-45: detectedStack.some(s => s.name === ...)
someWordPress(stack) ==
  \E k \in 1..Len(stack) :
    stack[k].name = "WordPress Theme" \/ stack[k].name = "WordPress"

\* lines 37-77: stack detection, filter context, ignore patterns
DetectAndPrepare ==
  /\ pc = "start"
  /\ LET stack == detectStack(tree)
         isWordPressTheme == someWordPress(stack)
     IN /\ detectedStack' = stack
        /\ filterContext' =
             [isWordPressTheme |-> isWordPressTheme,
              hasNodeModules |-> existsSync(tree, "node_modules"),
              detectedStack |-> [k \in 1..Len(stack) |-> ToLowerCase(stack[k].name)]]
        /\ allIgnorePatterns' =
             config.ignorePatterns
             \o << "**/.git/**", "**/node_modules/**", "**/dist/**", "**/build/**",
                   "**/.next/**", "**/coverage/**" >>
             \o (IF isWordPressTheme
                 THEN << "**/vendor/**", "**/assets/vendor/**" >>
                 ELSE <<>>)
  /\ \E order \in manifestOrders(tree) :
       workspacePackages' = discoverWorkspacePackages(tree, order)
  /\ \E listing \in readdirSync(platform, tree, ".cursor/rules") :
       specialFiles' = findSpecialFiles(platform, tree, listing)
  /\ pc' = "enumerate"
  /\ UNCHANGED << execution, configFile, credentialsFile, selection, commandOutcome, extraction,
                  filtering,
                  tree, config, rg, platform,
                  rgCalls, digest, allFiles, pending, fileMetadata, importantPaths,
                  processedCount, capWarnings, modules, index, firstIndex >>

\* lines 79-92: the enumeration
Enumerate ==
  /\ pc = "enumerate"
  /\ allFiles' = globby(tree, allIgnorePatterns)
  /\ pending' = allFiles'
  /\ fileMetadata' = <<>>
  /\ importantPaths' = <<>>
  /\ processedCount' = 0
  /\ pc' = "loop"
  /\ UNCHANGED << execution, configFile, credentialsFile, selection, commandOutcome, extraction,
                  filtering,
                  tree, config, rg, platform, workspacePackages, specialFiles,
                  rgCalls, digest, detectedStack, filterContext, allIgnorePatterns,
                  capWarnings, modules, index, firstIndex >>

\* a cap test that lets one more file through
capReachedLate(count, cfg) == count > cfg.maxFiles

\* line 95: the test at the top of every iteration
capReached(count, cfg) == count >= cfg.maxFiles

\* the break of line 97 without the warning of line 96
CapReachedSilent ==
  /\ pc = "loop"
  /\ pending # {}
  /\ capReached(processedCount, config)
  /\ pc' = "group"
  /\ UNCHANGED << execution, configFile, credentialsFile, selection, commandOutcome, extraction,
                  filtering,
                  tree, config, rg, platform, workspacePackages, specialFiles,
                  rgCalls, digest, detectedStack, filterContext, allIgnorePatterns,
                  allFiles, pending, fileMetadata, importantPaths, processedCount,
                  capWarnings, modules, index, firstIndex >>

\* lines 95-98: the cap check of an iteration that finds the cap reached
CapReached ==
  /\ pc = "loop"
  /\ pending # {}
  /\ capReached(processedCount, config)
  /\ capWarnings' = capWarnings + 1
  /\ pc' = "group"
  /\ UNCHANGED << execution, configFile, credentialsFile, selection, commandOutcome, extraction,
                  filtering,
                  tree, config, rg, platform, workspacePackages, specialFiles,
                  rgCalls, digest, detectedStack, filterContext, allIgnorePatterns,
                  allFiles, pending, fileMetadata, importantPaths, processedCount,
                  modules, index, firstIndex >>

\* the entry the loop pushes for a file it keeps (lines 117-141)
\* an extraction that reads every file below the raw ceiling
metadataOfAnySize(file, category, context) ==
  LET importance == calculateFileImportance(file.path, context)
      gate == importance > 4 \/ category = "config"
      content == IF gate /\ file.readable THEN file.content ELSE ""
  IN [path |-> file.path,
      type |-> category,
      keywords |-> IF content # "" THEN extractKeywordsFromFile(file, content) ELSE <<>>,
      importance |-> importance,
      exports |-> IF content # "" THEN extractExports(file, content) ELSE <<>>,
      dependencies |-> IF content # "" THEN extractDependencies(file, content) ELSE <<>>]

metadataOf(file, category, context) ==
  LET importance == calculateFileImportance(file.path, context)
      gate == importance > 4 \/ category = "config"
      content == IF gate /\ file.size < MAX_KEYWORD_CONTENT_SIZE /\ file.readable
                 THEN file.content ELSE ""
  IN [path |-> file.path,
      type |-> category,
      keywords |-> IF content # "" THEN extractKeywordsFromFile(file, content) ELSE <<>>,
      importance |-> importance,
      exports |-> IF content # "" THEN extractExports(file, content) ELSE <<>>,
      dependencies |-> IF content # "" THEN extractDependencies(file, content) ELSE <<>>]

\* whether an iteration over the file ends at one of the `continue`s
skipped(file, context, cfg) ==
  \/ shouldIgnorePath(file.path, context, cfg.ignorePatterns)
  \/ categorizeFile(file.path) = "test" /\ ~cfg.includeTests
  \/ ~file.statOk
  \/ file.size > MAX_FILE_SIZE

\* lines 94-149: one iteration of the loop below the cap; the loop takes the
\* paths in the order of the array globby returned, which may be any order
VisitFile(relativePath) ==
  /\ pc = "loop"
  /\ relativePath \in pending
  /\ ~capReached(processedCount, config)
  /\ pending' = pending \ { relativePath }
  /\ LET file == FileAt(tree, relativePath)
         category == categorizeFile(relativePath)
         entry == metadataOf(file, category, filterContext)
     IN IF skipped(file, filterContext, config)
        THEN UNCHANGED << fileMetadata, importantPaths, processedCount >>
        ELSE /\ fileMetadata' = Append(fileMetadata, entry)
             /\ importantPaths' =
                  IF entry.importance > 7 \/ category = "config"
                  THEN Append(importantPaths, relativePath)
                  ELSE importantPaths
             /\ processedCount' = processedCount + 1
  /\ UNCHANGED << execution, configFile, credentialsFile, selection, commandOutcome, extraction,
                  filtering,
                  tree, config, rg, platform, workspacePackages, specialFiles,
                  rgCalls, digest, pc, detectedStack, filterContext, allIgnorePatterns,
                  allFiles, capWarnings, modules, index, firstIndex >>

\* a grouping that does not wait for the loop to end
GroupModulesEarly ==
  /\ pc \in { "group", "loop" }
  /\ modules' = buildModuleMap(fileMetadata)
  /\ pc' = IF pc = "group" \/ pending = {} THEN "insights" ELSE "loop"
  /\ UNCHANGED << execution, configFile, credentialsFile, selection, commandOutcome, extraction,
                  filtering,
                  tree, config, rg, platform, workspacePackages, specialFiles,
                  rgCalls, digest, detectedStack, filterContext, allIgnorePatterns,
                  allFiles, pending, fileMetadata, importantPaths, processedCount,
                  capWarnings, index, firstIndex >>

\* lines 151-153, reached by the break or by the end of the array
GroupModules ==
  /\ pc = "group" \/ (pc = "loop" /\ pending = {})
  /\ modules' = buildModuleMap(fileMetadata)
  /\ pc' = "insights"
  /\ UNCHANGED << execution, configFile, credentialsFile, selection, commandOutcome, extraction,
                  filtering,
                  tree, config, rg, platform, workspacePackages, specialFiles,
                  rgCalls, digest, detectedStack, filterContext, allIgnorePatterns,
                  allFiles, pending, fileMetadata, importantPaths, processedCount,
                  capWarnings, index, firstIndex >>

\* a return that reports the number of enumerated paths as totalFiles
DiscoverAndReturnCountingEnumerated ==
  /\ pc = "insights"
  /\ index' = [returned |-> TRUE,
               detectedStack |-> detectedStack,
               workspacePackages |-> workspacePackages,
               importantPaths |-> importantPaths,
               modules |-> modules,
               fileMetadata |-> fileMetadata,
               specialFiles |-> specialFiles,
               codeInsights |-> discoverCodeInsights(rg),
               ignoredPatterns |-> allIgnorePatterns,
               totalFiles |-> Cardinality(allFiles),
               indexedAt |-> Now]
  /\ rgCalls' = invocations(rg)
  /\ pc' = "done"
  /\ UNCHANGED << execution, configFile, credentialsFile, selection, commandOutcome, extraction,
                  filtering,
                  tree, config, rg, platform, workspacePackages, specialFiles,
                  digest, detectedStack, filterContext, allIgnorePatterns,
                  allFiles, pending, fileMetadata, importantPaths, processedCount,
                  capWarnings, modules, firstIndex >>

\* lines 155-169: pattern discovery and the returned value
DiscoverAndReturn ==
  /\ pc = "insights"
  /\ index' = [returned |-> TRUE,
               detectedStack |-> detectedStack,
               workspacePackages |-> workspacePackages,
               importantPaths |-> importantPaths,
               modules |-> modules,
               fileMetadata |-> fileMetadata,
               specialFiles |-> specialFiles,
               codeInsights |-> discoverCodeInsights(rg),
               ignoredPatterns |-> allIgnorePatterns,
               totalFiles |-> processedCount,
               indexedAt |-> Now]
  /\ rgCalls' = invocations(rg)
  /\ pc' = "done"
  /\ UNCHANGED << execution, configFile, credentialsFile, selection, commandOutcome, extraction,
                  filtering,
                  tree, config, rg, platform, workspacePackages, specialFiles,
                  digest, detectedStack, filterContext, allIgnorePatterns,
                  allFiles, pending, fileMetadata, importantPaths, processedCount,
                  capWarnings, modules, firstIndex >>

\* the caller renders the returned index (part_019 l.133-134)
Summarize ==
  /\ pc = "done"
  /\ digest' = summarizeIndexForAI(index)
  /\ pc' = "summarized"
  /\ UNCHANGED << execution, configFile, credentialsFile, selection, commandOutcome, extraction,
                  filtering,
                  tree, config, rg, platform, workspacePackages, specialFiles,
                  rgCalls, detectedStack, filterContext, allIgnorePatterns,
                  allFiles, pending, fileMetadata, importantPaths, processedCount,
                  capWarnings, modules, index, firstIndex >>

\* the caller runs buildRepositoryIndex again over the unchanged tree
RunAgain ==
  /\ pc = "done"
  /\ firstIndex = NoIndex
  /\ firstIndex' = index
  /\ pc' = "start"
  /\ detectedStack' = <<>>
  /\ filterContext' = [isWordPressTheme |-> FALSE, hasNodeModules |-> FALSE,
                       detectedStack |-> <<>>]
  /\ allIgnorePatterns' = <<>>
  /\ allFiles' = {}
  /\ pending' = {}
  /\ fileMetadata' = <<>>
  /\ importantPaths' = <<>>
  /\ processedCount' = 0
  /\ capWarnings' = 0
  /\ modules' = <<>>
  /\ index' = NoIndex
  /\ workspacePackages' = <<>>
  /\ specialFiles' = <<>>
  /\ rgCalls' = NoCalls
  /\ digest' = ""
  /\ UNCHANGED << execution, configFile, credentialsFile, selection, commandOutcome, extraction,
                  filtering,
                  tree, config, rg, platform >>

\* extractKeywordsFromFile has not been called by itself
NotExtracted == [called |-> FALSE]

\* keyword-extractor.ts lines 13-42: a caller hands a file, with or without its
\* text, to the exported function; the function keeps nothing between two
\* calls, so a behaviour has one
ExtractKeywords(file, content) ==
  /\ ~extraction.called
  /\ extraction' = [called |-> TRUE, file |-> file, content |-> content,
                    keywords |-> extractKeywordsFromFile(file, content)]
  /\ UNCHANGED << execution, configFile, credentialsFile, selection, commandOutcome, filtering,
                  tree, config, rg, platform, workspacePackages,
                  specialFiles, rgCalls, digest, pc, detectedStack, filterContext,
                  allIgnorePatterns, allFiles, pending, fileMetadata,
                  importantPaths, processedCount, capWarnings, modules, index,
                  firstIndex >>

\* shouldIgnorePath has not been called by itself
NotExecuted == [called |-> FALSE]

\* ripgrep-search.ts lines 36-63: one call of searchPattern up to the exec
RunSearchPattern(pattern, options) ==
  /\ ~execution.called
  /\ execution' = [called |-> TRUE, pattern |-> pattern, options |-> options,
                   args |-> searchArgs(pattern, options),
                   shell |-> sh(commandLine(searchArgs(pattern, options)))]
  /\ UNCHANGED << configFile, credentialsFile, selection, commandOutcome, extraction,
                  filtering,
                  tree, config, rg, platform, workspacePackages, specialFiles,
                  rgCalls, digest, pc, detectedStack, filterContext,
                  allIgnorePatterns, allFiles, pending, fileMetadata, importantPaths,
                  processedCount, capWarnings, modules, index, firstIndex >>

NotFiltered == [called |-> FALSE]

\* file-filter.ts lines 73-126: a caller asks the exported function about one
\* path; the function keeps nothing between two calls, so a behaviour has one
CheckPath(relativePath, context, customIgnorePatterns) ==
  /\ ~filtering.called
  /\ filtering' = [called |-> TRUE, path |-> relativePath, context |-> context,
                   patterns |-> customIgnorePatterns,
                   ignored |-> shouldIgnorePath(relativePath, context,
                                                customIgnorePatterns)]
  /\ UNCHANGED << execution, configFile, credentialsFile, selection, commandOutcome, extraction,
                  tree, config, rg, platform, workspacePackages,
                  specialFiles, rgCalls, digest, pc, detectedStack, filterContext,
                  allIgnorePatterns, allFiles, pending, fileMetadata,
                  importantPaths, processedCount, capWarnings, modules, index,
                  firstIndex >>

\* no provider command is part of the run
NoSelection == [provider |-> "", before |-> NoConfigFile]

NoCommand ==
  /\ configFile = NoConfigFile
  /\ credentialsFile = NoCredentialsFile
  /\ selection = NoSelection
  /\ commandOutcome = "none"
  /\ extraction = NotExtracted
  /\ filtering = NotFiltered
  /\ execution = NotExecuted

\* set-provider.ts lines 18-57: one call of the command
RunSetProviderCommand(argv, interactive, chosenProviderId) ==
  LET call == runSetProviderCommand(configFile, credentialsFile, argv, interactive,
                                    chosenProviderId)
  IN /\ configFile' = call.file
     /\ commandOutcome' = call.outcome
     /\ selection' = IF call.outcome = "set"
                     THEN [provider |-> chosenProviderId, before |-> configFile]
                     ELSE selection
     /\ UNCHANGED << execution, credentialsFile, extraction, filtering, tree, config, rg, platform, workspacePackages,
                     specialFiles, rgCalls, digest, pc, detectedStack, filterContext,
                     allIgnorePatterns, allFiles, pending, fileMetadata,
                     importantPaths, processedCount, capWarnings, modules, index,
                     firstIndex >>

Next ==
  \/ DetectAndPrepare
  \/ Enumerate
  \/ CapReached
  \/ \E relativePath \in pending : VisitFile(relativePath)
  \/ GroupModules
  \/ DiscoverAndReturn
  \/ Summarize

(***************************************************************************)
(* The repositories and configurations the runs are checked over.           *)
(***************************************************************************)
\* most files of a tree, and the largest maxFiles; maxFiles is a number of
\* files, a natural number (the code does not validate it)
MaxTreeFiles == 2
MaxCap == 2

\* maxFiles = 10000 when the caller gives none (line 37)
DefaultMaxFiles == 10000

packageJson ==
  [File("package.json", 420, "{ \"name\": \"app\" }") EXCEPT
     !.manifest = [NoManifest EXCEPT !.valid = TRUE, !.name = "app",
                                     !.dependencies.react = "^18.2.0"]]

themeCss == File("style.css", 300, "/* Theme Name: Aurora */")
plainCss == File("style.css", 300, "body { margin: 0 }")
lockedCss == [File("style.css", 300, "") EXCEPT !.readable = FALSE]

srcIndex ==
  [File("src/index.ts", 900, "export function main() {}") EXCEPT
     !.found.export = << "main" >>]
srcRouter ==
  [File("src/router.ts", 700, "import express from 'express'") EXCEPT
     !.found.import = << "express" >>]
srcTest == File("src/util.test.ts", 500, "test('x', () => {})")
outGen == File("out/gen.js", 800, "var a")
ghost == [File("src/ghost.ts", 100, "let g") EXCEPT !.statOk = FALSE]
bigAsset == File("assets/big.bin", 600000, "0101")
deepFile == File("a/b/c/d/e/f/deep.ts", 200, "const d = 1")

minified == File("src/app.min.js", 4000, "!function(){}()")
vendored == File("lib/vendor/dep.js", 600, "module.exports = 1")
themeInclude == File("inc/helpers/setup.php", 900, "<?php add_action('init', 'x');")
themeTemplate == File("template-home.php", 500, "<?php get_header();")
dependency == File("node_modules/pkg/index.js", 300, "module.exports = 2")
cached == File(".cache/data.json", 300, "{}")
guide == File("docs/guide.md", 1200, "# Guide")

CoreFiles == { packageJson, srcIndex, srcRouter, srcTest, outGen, ghost, bigAsset }

\* the root style sheet of a tree, if it has one
StyleSheets == { {}, { themeCss }, { plainCss }, { lockedCss } }

ThemeFiles ==
  { minified, vendored, themeInclude, themeTemplate, dependency, cached, guide,
    deepFile }

\* the trees of at most MaxTreeFiles files of a universe, paths distinct
Trees(universe) ==
  { t \in SUBSET universe :
      /\ Cardinality(t) <= MaxTreeFiles
      /\ \A f, g \in t : f.path = g.path => f = g }

RgOutcome(status, stdout) == [status |-> status, stdout |-> stdout]

MatchLine(path, lineNumber, text) ==
  [kind |-> "match", path |-> path, lineNumber |-> lineNumber, line |-> text,
   match |-> text]

\* the tool is not installed: every command fails
RgMissing == [p \in AllPatterns |-> RgOutcome("missing", <<>>)]

\* the tool runs and finds nothing
RgNoMatch == [p \in AllPatterns |-> RgOutcome("nomatch", <<>>)]

\* the searches whose outcome varies, the others finding nothing
ProbedPatterns ==
  { entryPointPatterns[1], entryPointPatterns[4],
    keyPatternSearches[10].pattern, configurationSearches[2].pattern }

NotJson == [kind |-> "malformed", path |-> "", lineNumber |-> 0, line |-> "", match |-> ""]
Summary == [kind |-> "other", path |-> "", lineNumber |-> 0, line |-> "", match |-> ""]

ProbedOutcomes ==
  { RgOutcome("nomatch", <<>>),
    RgOutcome("failed", <<>>),
    RgOutcome("ok", << NotJson, NotJson >>),
    RgOutcome("ok", << Summary,
                       MatchLine("src/router.ts", 3, "API_KEY=1"),
                       NotJson,
                       MatchLine("src/index.ts", 9, "function main (") >>) }

RgEnvironments ==
  { RgMissing }
  \cup { [p \in AllPatterns |-> IF p \in ProbedPatterns THEN probed[p]
                                 ELSE RgOutcome("nomatch", <<>>)] :
           probed \in [ProbedPatterns -> ProbedOutcomes] }

RgSample ==
  [RgNoMatch EXCEPT
     ![entryPointPatterns[4]] =
        RgOutcome("ok", << MatchLine("src/index.ts", 1, "export function main() {}") >>)]

InitWith(universe, patternChoices, caps, testChoices, environments) ==
  /\ tree \in Trees(universe)
  /\ config \in [ignorePatterns : patternChoices, maxFiles : caps,
                 includeTests : testChoices]
  /\ rg \in environments
  /\ platform = PosixNode
  /\ firstIndex = NoIndex
  /\ Fresh
  /\ NoCommand

\* repositories that exercise the counting and the cap
Init == InitWith(CoreFiles, { <<>> }, 0..MaxCap, BOOLEAN, { RgSample })

Spec == Init /\ [][Next]_vars

\* repositories that exercise the ignore rules and the scores
FilterConfigs ==
  { [ignorePatterns |-> <<>>, maxFiles |-> DefaultMaxFiles, includeTests |-> FALSE],
    [ignorePatterns |-> << "docs" >>, maxFiles |-> DefaultMaxFiles,
     includeTests |-> FALSE],
    [ignorePatterns |-> <<>>, maxFiles |-> 1, includeTests |-> FALSE] }

InitFilter ==
  /\ \E styleSheet \in StyleSheets, others \in Trees(ThemeFiles) :
       tree = styleSheet \cup others
  /\ config \in FilterConfigs
  /\ rg = RgSample
  /\ platform = PosixNode
  /\ firstIndex = NoIndex
  /\ Fresh
  /\ NoCommand

SpecFilter == InitFilter /\ [][Next]_vars

\* the outcomes of the external tool
InitSearch ==
  InitWith({ packageJson, srcIndex }, { <<>> }, { 1, DefaultMaxFiles }, { FALSE },
           RgEnvironments)

SpecSearch == InitSearch /\ [][Next]_vars

\* two runs over one tree
InitTwice ==
  InitWith({ packageJson, srcIndex, srcRouter, deepFile }, { <<>> }, 0..MaxCap,
           { FALSE }, { RgSample })

SpecTwice == InitTwice /\ [][Next \/ RunAgain]_vars

(***************************************************************************)
(* Properties of the returned index.                                        *)
(***************************************************************************)
Paths(entries) == { entries[k].path : k \in 1..Len(entries) }

\* the enumerated paths whose iteration reaches the push of line 134
EligiblePaths == { p \in allFiles : ~skipped(FileAt(tree, p), filterContext, config) }

\* C1: the returned index has totalFiles equal to the length of fileMetadata
\* and at most the configured maxFiles, whatever the tree and the config.
TotalFilesMatchesMetadata ==
  index.returned =>
    /\ index.totalFiles = Len(index.fileMetadata)
    /\ index.totalFiles <= config.maxFiles

\* a run the cap cut short: more enumerated paths than the cap lets through
TruncatedIndexReturned ==
  /\ index.returned
  /\ Cardinality(allFiles) > config.maxFiles
  /\ index.totalFiles = config.maxFiles
  /\ config.maxFiles > 0

\* C2: every path in the files of a module of the returned index is the path
\* of an entry of fileMetadata of that index.
ModuleFilesAreIndexed ==
  index.returned =>
    \A m \in 1..Len(index.modules) :
      SeqToSet(index.modules[m].files) \subseteq Paths(index.fileMetadata)

\* an index with a module of a subdirectory
SubdirectoryModuleReturned ==
  /\ index.returned
  /\ \E m \in 1..Len(index.modules) :
       /\ index.modules[m].path # "."
       /\ Len(index.modules[m].files) >= 2

\* C3: in the returned index every detectedStack confidence, every
\* fileMetadata importance and every module importance is in [0,1] (0..10
\* tenths; a mean sum/n is in [0,1] when 0 <= sum <= 10 * n).
ScoresInUnitInterval ==
  index.returned =>
    /\ \A k \in 1..Len(index.detectedStack) :
         index.detectedStack[k].confidence \in 0..10
    /\ \A k \in 1..Len(index.fileMetadata) :
         index.fileMetadata[k].importance \in 0..10
    /\ \A m \in 1..Len(index.modules) :
         LET importance == index.modules[m].importance
         IN /\ importance.n > 0
            /\ importance.sum >= 0
            /\ importance.sum <= 10 * importance.n

\* a theme whose root style sheet collects base, depth and platform bonuses
\* beyond 1.0, next to a root module and a detected stack
BonusesBeyondOneReturned ==
  /\ index.returned
  /\ filterContext.isWordPressTheme
  /\ index.detectedStack # <<>>
  /\ index.modules # <<>>
  /\ \E k \in 1..Len(index.fileMetadata) :
       /\ index.fileMetadata[k].path = "style.css"
       /\ index.fileMetadata[k].importance = 10
       /\ calculateFileImportanceUnclamped("style.css", filterContext) > 10

\* C4: totalFiles of the returned index is maxFiles when the enumerated tree
\* holds at least maxFiles eligible files, and the number of eligible files
\* when it holds fewer.
TotalFilesIsCappedEligibleCount ==
  index.returned =>
    index.totalFiles = Min(config.maxFiles, Cardinality(EligiblePaths))

\* more eligible files than the cap, and an index of exactly maxFiles entries
MoreEligibleThanCapReturned ==
  /\ index.returned
  /\ config.maxFiles > 0
  /\ Cardinality(EligiblePaths) > config.maxFiles
  /\ Len(index.fileMetadata) = config.maxFiles

\* C5 as stated: a run whose processed count reaches maxFiles emits exactly
\* one cap warning, a run that stays below emits none.
OneWarningWheneverCapReached ==
  pc = "done" =>
    capWarnings = IF processedCount >= config.maxFiles THEN 1 ELSE 0

\* C5: the processed count never exceeds maxFiles and no file is processed
\* after the warning; a finished run has emitted one cap warning when the
\* count reached maxFiles with an enumerated path still unvisited, and none
\* otherwise.
OneWarningWhenPathsRemainAtCap ==
  /\ capWarnings <= 1
  /\ processedCount <= config.maxFiles
  /\ capWarnings = 1 => pc \notin { "loop", "enumerate", "start" }
  /\ pc = "done" =>
       capWarnings = IF processedCount >= config.maxFiles /\ pending # {}
                     THEN 1 ELSE 0

\* the cap reached by the last enumerated path: no warning
CapReachedAtLastPath ==
  /\ pc = "done"
  /\ config.maxFiles > 0
  /\ processedCount = config.maxFiles
  /\ pending = {}
  /\ capWarnings = 0

\* a path or one of its directories matches the pattern below any directory
IgnoredAtAnyDepth(pattern, p) == GlobIgnores("**/" \o pattern, p)

\* C6 as stated: no entry of fileMetadata has a path that matches a default
\* ignore pattern at any directory depth, or a caller-supplied ignore pattern.
NoIgnoredPathIndexed ==
  index.returned =>
    \A p \in Paths(index.fileMetadata) :
      /\ \A k \in 1..Len(DEFAULT_IGNORE_PATTERNS) :
           ~IgnoredAtAnyDepth(DEFAULT_IGNORE_PATTERNS[k], p)
      /\ \A k \in 1..Len(config.ignorePatterns) :
           ~GlobIgnores(config.ignorePatterns[k], p)

\* the path matches a pattern of the keep list, read as a glob
KeepListMatch(p) ==
  \E k \in 1..Len(WORDPRESS_THEME_KEEP_PATTERNS) :
    GlobMatch(WORDPRESS_THEME_KEEP_PATTERNS[k], p)

\* the path lies below a vendor, dependency or cache directory
UnderExcludedDirectory(p) ==
  LET ps == Split(p)
  IN \E k \in 1..(Len(ps) - 1) : ps[k] \in { "vendor", "node_modules", ".cache" }

RestComputedAsUsual ==
  /\ index.detectedStack = detectStack(tree)
  /\ index.fileMetadata = fileMetadata
  /\ index.totalFiles = Min(config.maxFiles, Cardinality(EligiblePaths))
  /\ index.modules = buildModuleMap(index.fileMetadata)
  /\ index.importantPaths = importantPaths
  /\ index.ignoredPatterns = allIgnorePatterns

\* C8: when every invocation of the search tool fails, the run returns an
\* index whose codeInsights has three empty lists and whose other fields are
\* computed as in any run.
InsightsEmptyWhenToolUnavailable ==
  (index.returned /\ \A p \in AllPatterns : rg[p].status # "ok") =>
    /\ index.codeInsights = NoInsights
    /\ RestComputedAsUsual

\* the tool is missing and the run returned an index with entries
ReturnedWithoutTool ==
  /\ index.returned
  /\ rg = RgMissing
  /\ index.fileMetadata # <<>>

\* a search that yields no match record: the command fails, finds nothing or
\* prints nothing that parses
Fails(outcome) ==
  \/ outcome.status # "ok"
  \/ \A k \in 1..Len(outcome.stdout) : outcome.stdout[k].kind # "match"

\* the environment in which the failing searches succeed with empty output
Healed(environment) ==
  [p \in AllPatterns |-> IF Fails(environment[p]) THEN RgOutcome("ok", <<>>)
                         ELSE environment[p]]

\* C9: whichever searches fail, codeInsights is what the other searches yield
\* in a run where the failing ones succeed with empty output, and the rest of
\* the index is computed as in any run.
FailingSearchesOnlyEmptyThemselves ==
  index.returned =>
    /\ index.codeInsights = discoverCodeInsights(Healed(rg))
    /\ RestComputedAsUsual

\* one search fails, another finds matches, and those matches are returned
MatchesBesideFailure ==
  /\ index.returned
  /\ \E p \in AllPatterns : rg[p].status = "failed"
  /\ \E p \in AllPatterns : rg[p].status = "ok" /\ ~Fails(rg[p])
  /\ index.codeInsights.entryPoints # <<>>
  /\ index.codeInsights.configPatterns # <<>>

\* C10 as stated: a second run over the unchanged tree with the same config
\* returns the detectedStack, fileMetadata and modules of the first run.
RerunYieldsSameIndex ==
  (index.returned /\ firstIndex.returned) =>
    /\ index.detectedStack = firstIndex.detectedStack
    /\ index.fileMetadata = firstIndex.fileMetadata
    /\ index.modules = firstIndex.modules

(***************************************************************************)
(* Stack detection over root manifests.                                     *)
(***************************************************************************)
FrameworkDependencies == { "react", "vue", "express" }

FrameworkName == [react |-> "React", vue |-> "Vue", express |-> "Express"]

\* a plain version and the range forms of a declared framework
DeclaredVersions == { "18.2.0", "^18.2.0", "~18.2.0", ">=18.2.0" }

\* a package.json that declares one framework in one of its two sections
ManifestDeclaring(section, framework, version) ==
  [File("package.json", 420, "{ \"name\": \"app\" }") EXCEPT
     !.manifest = [NoManifest EXCEPT !.valid = TRUE, !.name = "app",
                                     ![section][framework] = version]]

DeclaringManifests ==
  { ManifestDeclaring(section, framework, version) :
      section \in { "dependencies", "devDependencies" },
      framework \in FrameworkDependencies,
      version \in DeclaredVersions }

InitStack ==
  /\ \E manifest \in DeclaringManifests, others \in SUBSET { srcIndex, srcRouter } :
       tree = { manifest } \cup others
  /\ config \in [ignorePatterns : { <<>> }, maxFiles : { 1, DefaultMaxFiles },
                 includeTests : { FALSE }]
  /\ rg = RgSample
  /\ platform = PosixNode
  /\ firstIndex = NoIndex
  /\ Fresh
  /\ NoCommand

SpecStack == InitStack /\ [][Next]_vars

RangeOperators == { "^", "~", ">", "<", "=" }

RECURSIVE WithoutRangePrefix(_)
\* the version with the range operators in front of it removed
WithoutRangePrefix(version) ==
  IF version # "" /\ Ch(version, 1) \in RangeOperators
  THEN WithoutRangePrefix(SubSeq(version, 2, Len(version)))
  ELSE version

\* what the root manifest declares for a framework, "" when nothing
DeclaredVersion(framework) ==
  LET pkg == FileAt(tree, "package.json").manifest
  IN OrElse(pkg.dependencies[framework], pkg.devDependencies[framework])

\* C11 as stated: when the root manifest declares a recognized framework
\* dependency, detectedStack holds the runtime entry and an entry of that
\* framework whose version is the declared version without its range prefix,
\* for each of the frameworks and each range form.
FrameworkVersionStripped ==
  index.returned =>
    \A framework \in FrameworkDependencies :
      DeclaredVersion(framework) # "" =>
        /\ \E k \in 1..Len(index.detectedStack) :
             index.detectedStack[k].name = "Node.js"
        /\ \E k \in 1..Len(index.detectedStack) :
             /\ index.detectedStack[k].name = FrameworkName[framework]
             /\ index.detectedStack[k].version =
                  WithoutRangePrefix(DeclaredVersion(framework))

(***************************************************************************)
(* The special documentation files, over both kinds of filesystem and both  *)
(* module systems.                                                          *)
(***************************************************************************)
readmeUpper == File("README.md", 900, "# App")
readmeLower == File("readme.md", 900, "# app")
readmeHuge == File("README.md", 2 * SPECIAL_MAX_FILE_SIZE, "# App")
claudeRules == File("CLAUDE.md", 300, "Use pnpm.")
cursorRule == File(".cursor/rules/style.mdc", 200, "Prefer const.")

SpecialUniverse ==
  { readmeUpper, readmeLower, readmeHuge, claudeRules, cursorRule, srcIndex, srcRouter }

Platforms == [caseInsensitive : BOOLEAN, requireDefined : BOOLEAN]

\* no directory holds two entries its filesystem takes for one
storable(host, files) ==
  \A f, g \in files : sameName(host, f.path, g.path) => f = g

InitSpecial ==
  /\ platform \in Platforms
  /\ tree \in { files \in Trees(SpecialUniverse) : storable(platform, files) }
  /\ config \in [ignorePatterns : { <<>> }, maxFiles : { 1, DefaultMaxFiles },
                 includeTests : { FALSE }]
  /\ rg = RgSample
  /\ firstIndex = NoIndex
  /\ Fresh
  /\ NoCommand

SpecSpecial == InitSpecial /\ [][Next]_vars

\* the files at the root of the tree that are a readme under either spelling
RootReadmes == { f \in tree : ToLowerCase(f.path) = "readme.md" }

SingleReadableReadme ==
  /\ Cardinality(RootReadmes) = 1
  /\ \A f \in RootReadmes :
       f.statOk /\ f.readable /\ f.size <= SPECIAL_MAX_FILE_SIZE /\ f.content # ""

ReadmeEntries(files) == { k \in 1..Len(files) : files[k].type = "readme" }

\* C12 as stated: a tree with a single readable readme of admissible size at
\* its root yields exactly one special file of type readme, on every host.
ExactlyOneReadmeEntry ==
  (index.returned /\ SingleReadableReadme)
    => Cardinality(ReadmeEntries(index.specialFiles)) = 1

\* the case of C12 on a filesystem that folds case: one README.md, two entries
ReadmeListedTwice ==
  /\ index.returned
  /\ SingleReadableReadme
  /\ Cardinality(ReadmeEntries(index.specialFiles)) = 2

\* the case of C12 where require is not defined: one README.md, no entry
ReadmeNotListed ==
  /\ index.returned
  /\ SingleReadableReadme
  /\ platform.caseInsensitive = FALSE
  /\ Cardinality(ReadmeEntries(index.specialFiles)) = 0

\* C13: within a run the modules are computed once, when the loop over the
\* files has ended (every path visited, or the cap reached), from the list
\* of entries as it then stands; from then on no entry is added or changed.
GroupingAfterExtraction ==
  [][/\ modules' # modules =>
          /\ pc = "group" \/ (pc = "loop" /\ pending = {})
          /\ pc' = "insights"
     /\ pc' = "insights" /\ pc # "insights" =>
          modules' = buildModuleMap(fileMetadata')
     /\ pc \in { "insights", "done" } =>
          /\ fileMetadata' = fileMetadata
          /\ modules' = modules]_vars

GroupedAfterTwoExtractions ==
  /\ index.returned
  /\ Len(index.fileMetadata) = 2
  /\ Len(index.modules) >= 1
  /\ index.modules = buildModuleMap(index.fileMetadata)

\* the files of the tree whose stat or read fails or that exceed MAX_FILE_SIZE
FailingFiles ==
  { f \in tree : ~f.statOk \/ ~f.readable \/ f.size > MAX_FILE_SIZE }

\* C14 as stated: a file whose stat or content read fails, or that exceeds
\* the size ceiling, has no entry in the returned fileMetadata, and totalFiles
\* counts none of them.
FailingFilesSkipped ==
  index.returned =>
    /\ \A f \in FailingFiles : f.path \notin Paths(index.fileMetadata)
    /\ index.totalFiles <= Cardinality((tree \ FailingFiles))

\* the case of C14 the code treats otherwise: the read fails, the entry stays
UnreadableFileIndexed ==
  /\ index.returned
  /\ \E f \in tree, k \in 1..Len(index.fileMetadata) :
       /\ f.statOk /\ ~f.readable /\ f.size <= MAX_FILE_SIZE
       /\ index.fileMetadata[k].path = f.path
       /\ index.fileMetadata[k].keywords = <<>>
       /\ index.totalFiles = Len(index.fileMetadata)

(***************************************************************************)
(* Workspaces: a root manifest, a pnpm-workspace.yaml and two packages,     *)
(* each present or absent, well-formed or not.                              *)
(***************************************************************************)
Manifest(path, content, manifest) ==
  [File(path, 200, content) EXCEPT !.manifest = manifest]

rootWorkspaces ==
  Manifest("package.json", "{ \"name\": \"mono\", \"workspaces\": [\"packages/*\"] }",
           [NoManifest EXCEPT !.valid = TRUE, !.name = "mono",
                              !.workspaces = << "packages/*" >>])
rootBroken == Manifest("package.json", "{ \"name\": ", NoManifest)
pnpmFlush == File("pnpm-workspace.yaml", 40, "packages:\n- 'packages/*'\n")
pnpmIndented == File("pnpm-workspace.yaml", 40, "packages:\n  - 'packages/*'\n")
packageA ==
  Manifest("packages/a/package.json", "{ \"name\": \"a\" }",
           [NoManifest EXCEPT !.valid = TRUE, !.name = "a", !.version = "1.0.0"])
packageABroken == Manifest("packages/a/package.json", "{ name: a", NoManifest)
packageB ==
  Manifest("packages/b/package.json", "{ \"description\": \"b\" }",
           [NoManifest EXCEPT !.valid = TRUE, !.description = "b"])
packageBLocked ==
  [Manifest("packages/b/package.json", "{ \"description\": \"b\" }",
            [NoManifest EXCEPT !.valid = TRUE, !.description = "b"])
     EXCEPT !.readable = FALSE]

InitWorkspace ==
  /\ \E root \in { {}, { packageJson }, { rootWorkspaces }, { rootBroken } },
        declaration \in { {}, { pnpmFlush }, { pnpmIndented } },
        a \in { {}, { packageA }, { packageABroken } },
        b \in { {}, { packageB }, { packageBLocked } } :
       tree = root \cup declaration \cup a \cup b
  /\ config \in [ignorePatterns : { <<>> }, maxFiles : { 1, DefaultMaxFiles },
                 includeTests : { FALSE }]
  /\ rg = RgSample
  /\ platform = PosixNode
  /\ firstIndex = NoIndex
  /\ Fresh
  /\ NoCommand

SpecWorkspace == InitWorkspace /\ [][Next]_vars

parses(f) == f.readable /\ f.manifest.valid

IsNestedManifest(f) == Basename(f.path) = "package.json" /\ f.path # "package.json"

\* the tree with every package manifest that fails made to parse
NestedMended ==
  { IF IsNestedManifest(f) /\ ~parses(f)
    THEN [f EXCEPT !.readable = TRUE, !.manifest.valid = TRUE]
    ELSE f : f \in tree }

\* the tree with a root manifest that parses and declares no workspaces
RootMended ==
  { IF f.path = "package.json"
    THEN [f EXCEPT !.readable = TRUE, !.manifest = [NoManifest EXCEPT !.valid = TRUE]]
    ELSE f : f \in tree }

AnyOrder(files) == CHOOSE order \in manifestOrders(files) : TRUE

Nested(packages) == { e \in SeqToSet(packages) : ~e.isWorkspaceRoot }

\* C15: the packages listed are those listed when every package manifest
\* parses, less the packages whose manifest fails; when the root manifest
\* fails, pnpm-workspace.yaml yields the packages it yields beside a root
\* manifest that parses; and the run goes on to return.
FailingManifestsOnlyDropThemselves ==
  pc # "start" =>
    /\ SeqToSet(workspacePackages) =
         { e \in SeqToSet(discoverWorkspacePackages(NestedMended, AnyOrder(tree))) :
             e.isWorkspaceRoot \/ parses(FileAt(tree, e.relativeDir \o "/package.json")) }
    /\ (IsFile(tree, "package.json") /\ ~parses(FileAt(tree, "package.json"))) =>
         Nested(workspacePackages)
           = Nested(discoverWorkspacePackages(RootMended, AnyOrder(tree)))
    /\ pc = "done" => index.returned /\ index.workspacePackages = workspacePackages

BrokenRootAndPackageBesideListedOne ==
  /\ index.returned
  /\ IsFile(tree, "package.json") /\ ~parses(FileAt(tree, "package.json"))
  /\ \E f \in tree : IsNestedManifest(f) /\ ~parses(f)
  /\ \E k \in 1..Len(index.workspacePackages) :
       index.workspacePackages[k].relativeDir = "packages/a"

(***************************************************************************)
(* Buckets of tests and of configuration files.                             *)
(***************************************************************************)
componentsConfig == File("vite.config.components.ts", 300, "export default {}")
buttonTest == File("__tests__/ButtonComponent.test.tsx", 400, "it('renders', () => {})")
cardTest == File("__tests__/Card.test.tsx", 400, "it('renders', () => {})")

InitPurpose ==
  InitWith({ componentsConfig, buttonTest, cardTest, packageJson, srcIndex }, { <<>> },
           { 1, DefaultMaxFiles }, BOOLEAN, { RgSample })

SpecPurpose == InitPurpose /\ [][Next]_vars

\* the entries of the files of a module
MembersOf(module, entries) ==
  SelectSeq(entries, LAMBDA entry : SeqContains(module.files, entry.path))

MentionsComponent(files) ==
  \E k \in 1..Len(files) : \E i \in 1..Len(files[k].keywords) :
    Includes(ToLowerCase(files[k].keywords[i]), "component")

AllOfType(files, type) == \A k \in 1..Len(files) : files[k].type = type

\* the order of precedence the claim states
StatedPurpose(dirPath, files) ==
  LET dirName == ToLowerCase(Basename(dirPath))
  IN IF dirName \in DOMAIN purposeMap THEN purposeMap[dirName]
     ELSE IF AllOfType(files, "test") THEN "Test suite"
     ELSE IF AllOfType(files, "config") THEN "Configuration files"
     ELSE IF MentionsComponent(files) THEN "Component library"
     ELSE "Module"

\* C16 as stated: the purpose of every module of the returned index is the
\* first match of: directory name in the table, all tests, all config, a
\* keyword with "component", "Module".
PurposeByStatedPrecedence ==
  index.returned =>
    \A k \in 1..Len(index.modules) :
      index.modules[k].purpose
        = StatedPurpose(index.modules[k].path,
                        MembersOf(index.modules[k], index.fileMetadata))

\* the case of C16: a bucket of configuration files or of tests with a
\* keyword that holds "component", labelled "Component library"
UniformBucketLabelledComponentLibrary ==
  /\ index.returned
  /\ \E k \in 1..Len(index.modules) :
       LET members == MembersOf(index.modules[k], index.fileMetadata)
       IN /\ AllOfType(members, "test") \/ AllOfType(members, "config")
          /\ index.modules[k].purpose = "Component library"

(***************************************************************************)
(* Trees with several modules: the root, src and a deep directory.          *)
(***************************************************************************)
deepOther == File("a/b/c/d/e/f/other.ts", 200, "const o = 2")

InitModules ==
  /\ \E root \in { {}, { packageJson }, { guide } },
        src \in { {}, { srcIndex, srcRouter } },
        deep \in { {}, { deepFile, deepOther } } :
       tree = root \cup src \cup deep
  /\ config \in [ignorePatterns : { <<>> }, maxFiles : { 1, DefaultMaxFiles },
                 includeTests : { FALSE }]
  /\ rg = RgSample
  /\ platform = PosixNode
  /\ firstIndex = NoIndex
  /\ Fresh
  /\ NoCommand

SpecModules == InitModules /\ [][Next]_vars

\* C17: in every returned index each module is at least as important as the
\* module after it.
ModulesSortedByImportance ==
  index.returned =>
    \A k \in 1..(Len(index.modules) - 1) :
      ImportanceGeq(index.modules[k].importance, index.modules[k + 1].importance)

\* a returned index with three modules, the first more important than the last
ThreeModulesRanked ==
  /\ index.returned
  /\ Len(index.modules) = 3
  /\ ~ImportanceGeq(index.modules[3].importance, index.modules[1].importance)

\* the index with the line text and the matched substring of every match of
\* its configuration patterns blanked
WithoutConfigurationText(returned) ==
  [returned EXCEPT !.codeInsights.configPatterns =
     [k \in 1..Len(@) |->
        [@[k] EXCEPT !.matches =
           [i \in 1..Len(@) |-> [@[i] EXCEPT !.line = "", !.match = ""]]]]]

\* C18: the digest of an index is the digest of the same index with the line
\* text and the matched substring of its configuration matches blanked, so
\* indexes that differ only there have one digest.
ConfigurationTextNotInDigest ==
  pc = "summarized" => digest = summarizeIndexForAI(WithoutConfigurationText(index))

\* a digest with a configuration section over a match on a line with a secret
SecretLineNotEchoed ==
  /\ pc = "summarized"
  /\ \E k \in 1..Len(index.codeInsights.configPatterns) :
       \E i \in 1..Len(index.codeInsights.configPatterns[k].matches) :
         index.codeInsights.configPatterns[k].matches[i].line = "API_KEY=1"
  /\ index.codeInsights.patterns = <<>>
  /\ Includes(digest, "## Configuration Patterns")
  /\ ~Includes(digest, "API_KEY=1")

(***************************************************************************)
(* Digests of repositories whose configuration searches match in many       *)
(* files: --max-count limits the matching lines of each file searched, not  *)
(* the number of files.                                                     *)
(***************************************************************************)
\* a server setting in one more service than maxCount of the search
ServiceSettings ==
  [k \in 1..(configurationSearches[3].maxCount + 1) |->
     MatchLine("services/s" \o ToString(k) \o "/app.config.js", 2, "PORT=8080")]

RgManyServices ==
  [RgNoMatch EXCEPT ![configurationSearches[3].pattern] = RgOutcome("ok", ServiceSettings)]

InitDigest ==
  InitWith({ packageJson, srcIndex, guide }, { <<>> }, { 1, DefaultMaxFiles }, { FALSE },
           { RgNoMatch, RgSample, RgManyServices })

SpecDigest == InitDigest /\ [][Next]_vars

\* maxCount of the configuration search with the pattern
maxCountOf(pattern) ==
  LET k == CHOOSE i \in 1..Len(configurationSearches) :
             configurationSearches[i].pattern = pattern
  IN configurationSearches[k].maxCount

\* C19 as stated: every section of the digest other than the special files
\* has a number of lines bounded by the fixed limits of the code: the rules
\* of the stack detector, the slices of the lists, the five files and three
\* previews of a pattern, maxCount of a configuration search.  The strings
\* these sections push hold no line break, so each is one line.
SectionsBoundedByFixedLimits ==
  pc = "summarized" =>
    /\ Len(stackLines(index.detectedStack)) <= 2 + Len(STACK_DETECTION_RULES) + 3
    /\ Len(entryPointLines(index.codeInsights.entryPoints)) <= 2 + 10
    /\ Len(keyPatternLines(index.codeInsights.patterns))
         <= 1 + Len(keyPatternSearches) * (2 + 5 * (1 + 3))
    /\ \A k \in 1..Len(index.codeInsights.configPatterns) :
         Len(configurationLines(<< index.codeInsights.configPatterns[k] >>))
           <= 3 + maxCountOf(index.codeInsights.configPatterns[k].pattern)
    /\ Len(moduleLines(index.modules)) <= 2 + 10
    /\ Len(importantFileLines(index.importantPaths)) <= 2 + 15
    /\ Len(footerLines(index)) = 2

\* the case of C19: a configuration section that lists every matching file
ConfigurationSectionListsEveryFile ==
  /\ pc = "summarized"
  /\ index.specialFiles = <<>>
  /\ Len(configurationLines(index.codeInsights.configPatterns))
       = 3 + Len(ServiceSettings)
  /\ Includes(digest, "services/s11/app.config.js")

StoredProviders == { "anthropic", "gemini", "openai" }
StoredModels == { "", "claude-sonnet-4-0", "gemini-2.5-pro", "gpt-4" }

StoredConfigs ==
  { EmptyConfig, [geminiApiKey |-> "AI123"], [defaultModel |-> "gemini-2.5-pro"] }
  \cup { [defaultProvider |-> provider] : provider \in StoredProviders }
  \cup { [defaultProvider |-> provider, defaultModel |-> model] :
           provider \in StoredProviders, model \in StoredModels }

ConfigFiles ==
  { NoConfigFile, BrokenConfigFile } \cup { ConfigFile(value) : value \in StoredConfigs }

\* the provider field of the stored credentials
CredentialEntries ==
  { <<>>, << "gemini" >>, << " Anthropic" >>, << "openai" >>,
    << "gemini", "anthropic" >>, << "anthropic", "gemini", "gemini" >>,
    << "openai", "", "gemini" >> }

CredentialsFiles ==
  { NoCredentialsFile, BrokenCredentialsFile }
  \cup { CredentialsFile(entries) : entries \in CredentialEntries }

Arguments == { <<>>, << "--help" >>, << "-h" >> }
Selections == { "anthropic", "gemini", "unknown-provider" }

InitProvider ==
  /\ configFile \in ConfigFiles
  /\ credentialsFile \in CredentialsFiles
  /\ selection = NoSelection
  /\ commandOutcome = "none"
  /\ extraction = NotExtracted
  /\ filtering = NotFiltered
  /\ execution = NotExecuted
  /\ tree = {}
  /\ config = [ignorePatterns |-> <<>>, maxFiles |-> DefaultMaxFiles,
               includeTests |-> FALSE]
  /\ rg = RgSample
  /\ platform = PosixNode
  /\ firstIndex = NoIndex
  /\ Fresh

NextProvider ==
  \E argv \in Arguments, interactive \in BOOLEAN, chosenProviderId \in Selections :
    RunSetProviderCommand(argv, interactive, chosenProviderId)

SpecProvider == InitProvider /\ [][NextProvider]_vars

\* C21: once a call of the command has set a provider, the stored configuration
\* names the provider selected last as defaultProvider and that provider's
\* catalog default model as defaultModel, whatever was stored before
StoredSelectionIsLastWithCatalogDefault ==
  selection.provider # ""
    => /\ configFile.exists /\ configFile.json
       /\ Get(configFile.value, "defaultProvider") = selection.provider
       /\ getProviderMetadata(selection.provider) # <<>>
       /\ Get(configFile.value, "defaultModel")
            = getProviderMetadata(selection.provider)[1].defaultModel

\* a switch from gemini with another of its models to anthropic
SwitchedOverStoredModel ==
  /\ selection.provider = "anthropic"
  /\ commandOutcome = "set"
  /\ selection.before.exists
  /\ Get(selection.before.value, "defaultProvider") = "gemini"
  /\ Get(selection.before.value, "defaultModel") = "gemini-2.5-pro"
  /\ Get(configFile.value, "defaultModel") = "claude-sonnet-4-5"

(***************************************************************************)
(* C22: the two size ceilings.                                              *)
(***************************************************************************)
\* source files around the extraction ceiling and the raw ceiling
Sized(path, size) ==
  [File(path, size, "export function boot() {}\nimport express from 'express'")
     EXCEPT !.found.export = << "boot" >>, !.found.import = << "express" >>]

belowExtraction == Sized("src/below.ts", MAX_KEYWORD_CONTENT_SIZE - 1)
atExtraction == Sized("src/at.ts", MAX_KEYWORD_CONTENT_SIZE)
bundle == Sized("src/bundle.ts", 120000)
atCeiling == Sized("src/ceiling.ts", MAX_FILE_SIZE)
aboveCeiling == Sized("src/above.ts", MAX_FILE_SIZE + 1)

SizedFiles ==
  { packageJson, belowExtraction, atExtraction, bundle, atCeiling, aboveCeiling }

InitExtraction ==
  InitWith(SizedFiles, { <<>> }, { 1, DefaultMaxFiles }, { FALSE }, { RgSample })

SpecExtraction == InitExtraction /\ [][Next]_vars

Extracted(entry) ==
  entry.keywords # <<>> \/ entry.exports # <<>> \/ entry.dependencies # <<>>

BetweenCeilings(file) ==
  file.size >= MAX_KEYWORD_CONTENT_SIZE /\ file.size <= MAX_FILE_SIZE

EntriesOf(path) == SelectSeq(fileMetadata, LAMBDA entry : entry.path = path)

\* C22: an entry carries keywords, exports or dependencies only if its
\* importance is above 0.4 or its category is config, and its file is smaller
\* than the extraction ceiling; that ceiling is below the raw ceiling, and a
\* file between the two is indexed, once the loop has passed it, with no
\* keywords, exports or dependencies
ExtractionOnlyBelowCeiling ==
  /\ MAX_KEYWORD_CONTENT_SIZE < MAX_FILE_SIZE
  /\ \A k \in 1..Len(fileMetadata) :
       Extracted(fileMetadata[k])
         => /\ fileMetadata[k].importance > 4 \/ fileMetadata[k].type = "config"
            /\ FileAt(tree, fileMetadata[k].path).size < MAX_KEYWORD_CONTENT_SIZE
  /\ \A file \in tree :
       BetweenCeilings(file)
         => /\ \A k \in 1..Len(fileMetadata) :
                 fileMetadata[k].path = file.path => ~Extracted(fileMetadata[k])
            /\ (pc \in { "group", "insights", "done", "summarized" }
                  /\ capWarnings = 0 /\ ~skipped(file, filterContext, config))
                 => Len(EntriesOf(file.path)) = 1

\* one file just below the extraction ceiling, extracted, beside one between
\* the ceilings, indexed bare
BareEntryBesideExtractedOne ==
  /\ pc = "done"
  /\ Len(EntriesOf("src/below.ts")) = 1
  /\ EntriesOf("src/below.ts")[1].keywords # <<>>
  /\ EntriesOf("src/below.ts")[1].exports = << "boot" >>
  /\ Len(EntriesOf("src/bundle.ts")) = 1
  /\ ~Extracted(EntriesOf("src/bundle.ts")[1])

(***************************************************************************)
(* C23, C24, C25: extractKeywordsFromFile called by itself.                 *)
(***************************************************************************)
KeywordNames ==
  { "UserProfileService", "the-app", "get_user-list", "XMLHttpRequest", "user-User_user" }
KeywordExtensions == { ".ts", ".py", ".php", ".go", ".rb", ".md" }

ManyNames ==
  << "alpha", "bravo", "charlie", "delta", "echo", "foxtrot", "golf", "hotel",
     "india", "juliett", "kilo", "lima", "mike", "november", "oscar", "papa",
     "quebec", "romeo", "sierra" >>

\* what the expressions of the extractor match in a text with a few names,
\* some of them twice and some of them words of the file name
FewMatches ==
  [export |-> << "main", "User" >>, class |-> << "User", "Widget" >>,
   binding |-> << "app", "handler", "main", "that" >>,
   import |-> << "express", "./local", "@scope/pkg" >>, type |-> << "Props" >>,
   require |-> <<>>, def |-> << "load", "_hidden", "run" >>,
   pyimport |-> << "os", "json" >>, topclass |-> << "User" >>,
   topdef |-> << "load" >>, toppyimport |-> << "json" >>,
   phpfunction |-> << "__construct", "render_block" >>, hook |-> << "init" >>,
   wpfunction |-> << "wp_head", "get_x" >>,
   identifier |-> << "User", "Widget", "Http", "These", "Controller", "Widget" >>]

\* and in a text with more names than the extractor returns
ManyMatches ==
  [FewMatches EXCEPT !.export = ManyNames, !.def = ManyNames,
                     !.phpfunction = ManyNames,
                     !.identifier = [k \in 1..Len(ManyNames) |->
                                       "T" \o ManyNames[k]]]

KeywordFilesNamed(path) ==
  { [File(path, 300, "text") EXCEPT !.found = found] :
      found \in { NoMatches, FewMatches, ManyMatches } }
  \cup { File(path, 0, ""), [File(path, 300, "") EXCEPT !.readable = FALSE] }

KeywordFiles ==
  UNION { KeywordFilesNamed("src/" \o name \o ext) :
            name \in KeywordNames, ext \in KeywordExtensions }

InitKeywords ==
  /\ tree = {}
  /\ config = [ignorePatterns |-> <<>>, maxFiles |-> DefaultMaxFiles,
               includeTests |-> FALSE]
  /\ rg = RgSample
  /\ platform = PosixNode
  /\ firstIndex = NoIndex
  /\ Fresh
  /\ NoCommand

NextKeywords ==
  \E file \in KeywordFiles :
    \E content \in { file.content, "" } : ExtractKeywords(file, content)

SpecKeywords == InitKeywords /\ [][NextKeywords]_vars

\* the text the call works on: the one handed in, else the one it reads
TextOf(call) ==
  IF call.content # "" THEN call.content
  ELSE IF call.file.readable THEN call.file.content ELSE ""

NamesOf(file) == filenameKeywords(file.path, ToLowerCase(Extname(file.path)))

\* what the strategy of the extension adds to an empty set
LanguageMatches(file) ==
  LET ext == ToLowerCase(Extname(file.path))
  IN IF ext \in { ".ts", ".tsx", ".js", ".jsx" }
     THEN extractJavaScriptKeywords(file.found, <<>>)
     ELSE IF ext = ".py" THEN extractPythonKeywords(file.found, <<>>)
     ELSE IF ext = ".php" THEN extractPHPKeywords(file.found, <<>>)
     ELSE IF ext \in { ".go", ".rs", ".java", ".kt" }
          THEN extractGenericKeywords(file.found, <<>>)
     ELSE <<>>

\* the first occurrence of each element, in order
DistinctInOrder(seq) ==
  LET firsts == { k \in 1..Len(seq) : \A j \in 1..(k - 1) : seq[j] # seq[k] }
  IN [i \in 1..Cardinality(firsts) |->
        seq[CHOOSE k \in firsts : Cardinality({ j \in firsts : j < k }) = i - 1]]

\* C23: the keywords returned are at most 20, without duplicates, and are the
\* first 20 distinct ones of the words of the file name followed by the matches
\* of the language strategy, in that order
FirstTwentyInInsertionOrder ==
  extraction.called
    => /\ Len(extraction.keywords) <= 20
       /\ \A j, k \in 1..Len(extraction.keywords) :
            extraction.keywords[j] = extraction.keywords[k] => j = k
       /\ TextOf(extraction) # ""
            => extraction.keywords
                 = Slice(DistinctInOrder(NamesOf(extraction.file)
                                         \o LanguageMatches(extraction.file)), 20)

\* a file with three words in its name and 19 exports: the last two are cut
TruncatedAfterFilenameWords ==
  /\ extraction.called
  /\ extraction.file.path = "src/UserProfileService.ts"
  /\ extraction.file.found = ManyMatches
  /\ Len(extraction.keywords) = 20
  /\ SubSeq(extraction.keywords, 1, 4) = << "User", "Profile", "Service", "alpha" >>
  /\ extraction.keywords[20] = "quebec"

\* whether the filter of the file-name words and the filter of the function and
\* variable bindings keep a word
KeptAsFilenameWord(word) == filenameKeywords(word, "") # <<>>
KeptAsBinding(word) ==
  extractJavaScriptKeywords([NoMatches EXCEPT !.binding = << word >>], <<>>) # <<>>

WordsOfName(file) ==
  splitCamelCase(BasenameNoExt(file.path, ToLowerCase(Extname(file.path))))

\* C24: whatever the extension and the text of the file, the empty text
\* included, every word of the file name that passes the filter is among the
\* keywords returned, and the filter keeps a word of the name exactly when it
\* keeps a binding of that name
FilenameWordsAlwaysKept ==
  extraction.called
    => /\ \A k \in 1..Len(NamesOf(extraction.file)) :
            SeqContains(extraction.keywords, NamesOf(extraction.file)[k])
       /\ \A k \in 1..Len(WordsOfName(extraction.file)) :
            KeptAsFilenameWord(WordsOfName(extraction.file)[k])
              <=> KeptAsBinding(WordsOfName(extraction.file)[k])

\* an empty file whose name has three words that pass the filter
EmptyFileYieldsNoKeywords ==
  /\ extraction.called
  /\ extraction.file.path = "src/UserProfileService.ts"
  /\ extraction.file.readable
  /\ extraction.file.content = ""
  /\ NamesOf(extraction.file) = << "User", "Profile", "Service" >>
  /\ extraction.keywords = <<>>

\* the extensions extractKeywordsFromFile has a language strategy for
LanguageExtensions == { ".ts", ".tsx", ".js", ".jsx", ".py", ".php" }

\* C25: a file whose extension has no language strategy goes through the
\* generic extractor: its capitalized identifiers of more than three
\* characters that are no stop words are among its keywords, as far as the
\* limit of 20 leaves room
UnrecognizedExtensionsUseGenericFallback ==
  (/\ extraction.called
   /\ TextOf(extraction) # ""
   /\ ToLowerCase(Extname(extraction.file.path)) \notin LanguageExtensions)
    => \A k \in 1..Len(extraction.file.found.identifier) :
         notCommon(extraction.file.found.identifier[k], 3)
           => \/ SeqContains(extraction.keywords, extraction.file.found.identifier[k])
              \/ Len(extraction.keywords) = 20

\* a Ruby file with the identifiers Widget and Controller in its text
RubyIdentifiersDropped ==
  /\ extraction.called
  /\ extraction.file.path = "src/UserProfileService.rb"
  /\ extraction.content = "text"
  /\ SeqContains(extraction.file.found.identifier, "Widget")
  /\ SeqContains(extraction.file.found.identifier, "Controller")
  /\ extraction.keywords = << "User", "Profile", "Service" >>

(***************************************************************************)
(* C26: the entries of the detection rules.                                 *)
(***************************************************************************)
flaskApp == File("app.py", 200, "from flask import Flask")
flaskPlain == File("flask_app.py", 200, "print(1)")
bunLock == File("bun.lockb", 900, "lock")
goMod == File("go.mod", 80, "module m")
goSum == File("go.sum", 80, "h1:")
styleFolder == File("style.css/reset.txt", 50, "Theme Name: none")

RuleFiles ==
  { packageJson, themeCss, plainCss, lockedCss, styleFolder, flaskApp, flaskPlain,
    bunLock, goMod, goSum }

InitRules ==
  InitWith(RuleFiles, { <<>> }, { 1, DefaultMaxFiles }, { FALSE }, { RgSample })

SpecRules == InitRules /\ [][Next]_vars

\* the rules one of whose files exists, in the order of their declaration
MatchedRules ==
  SelectSeq([k \in 1..Len(STACK_DETECTION_RULES) |-> k],
            LAMBDA k : \E i \in 1..Len(STACK_DETECTION_RULES[k].files) :
                         existsSync(tree, STACK_DETECTION_RULES[k].files[i]))

\* the first file of the rule that exists
MatchedFile(rule) ==
  rule.files[CHOOSE i \in 1..Len(rule.files) :
               /\ existsSync(tree, rule.files[i])
               /\ \A j \in 1..(i - 1) : ~existsSync(tree, rule.files[j])]

Readable(path) == \E f \in tree : f.path = path /\ f.readable

StatedConfidence(rule) ==
  IF rule.keywords = <<>> THEN 10
  ELSE IF ~Readable(MatchedFile(rule)) THEN 7
  ELSE IF \E k \in 1..Len(rule.keywords) :
            Includes(FileAt(tree, MatchedFile(rule)).content, rule.keywords[k])
       THEN 10
  ELSE 6

\* C26: the stack starts with one entry for each rule one of whose files
\* exists, in declaration order and with repeated names kept; the confidence
\* is 1.0 without content keywords or with one of them in the matched file,
\* 0.6 with none of them in it and 0.7 when it cannot be read; what follows
\* comes from the root manifest
OneEntryPerMatchedRule ==
  pc # "start"
    => /\ Len(detectedStack) >= Len(MatchedRules)
       /\ \A i \in 1..Len(MatchedRules) :
            LET rule == STACK_DETECTION_RULES[MatchedRules[i]]
            IN /\ detectedStack[i].name = rule.name
               /\ detectedStack[i].category = rule.category
               /\ detectedStack[i].confidence = StatedConfidence(rule)
       /\ \A i \in (Len(MatchedRules) + 1)..Len(detectedStack) :
            detectedStack[i].name \in { "React", "Vue", "Express" }

\* one lock file matched by two rules of the same name, before a Flask rule
\* matched on a file without the keyword
RepeatedNameBeforeDowngradedEntry ==
  /\ pc = "done"
  /\ Len(detectedStack) = 3
  /\ detectedStack[1].name = "Bun" /\ detectedStack[1].category = "runtime"
  /\ detectedStack[2].name = "Bun" /\ detectedStack[2].category = "tool"
  /\ detectedStack[2].confidence = 10
  /\ detectedStack[3].name = "Flask" /\ detectedStack[3].confidence = 6

(***************************************************************************)
(* C27: shouldIgnorePath called by itself.                                  *)
(***************************************************************************)
CheckedPaths ==
  { "a/b/generated/c/d.ts", "src/generated/x.ts", "generated/x.ts", "src/index.ts",
    "docs/guide.md", "docs", "src/docs/a.md", "README.md", "debug.log",
    "logs/debug.log", "lib/app.min.js", "node_modules/p/i.js" }

CheckedPatterns ==
  { <<>>, << "docs" >>, << "**/generated/**" >>, << "*.md" >>, << "src/*.ts" >>,
    << "**/*.md" >> }

CheckedContexts ==
  { [isWordPressTheme |-> theme, hasNodeModules |-> FALSE, detectedStack |-> <<>>] :
      theme \in BOOLEAN }

InitIgnore ==
  /\ tree = {}
  /\ config = [ignorePatterns |-> <<>>, maxFiles |-> DefaultMaxFiles,
               includeTests |-> FALSE]
  /\ rg = RgSample
  /\ platform = PosixNode
  /\ firstIndex = NoIndex
  /\ Fresh
  /\ NoCommand

NextIgnore ==
  \E relativePath \in CheckedPaths, context \in CheckedContexts,
     customIgnorePatterns \in CheckedPatterns :
    CheckPath(relativePath, context, customIgnorePatterns)

SpecIgnore == InitIgnore /\ [][NextIgnore]_vars

\* the match the statement describes: a pattern without wildcard names the
\* path or a directory above it; in a glob, * stands for characters within one
\* segment and ** for any number of segments
StatedMatch(relativePath, pattern) ==
  IF Includes(pattern, "*")
  THEN GlobMatch(pattern, relativePath)
  ELSE relativePath = pattern \/ StartsWith(relativePath, pattern \o "/")

\* C27: outside a theme, a path that matches a default or a caller-supplied
\* pattern in the stated sense is ignored
IgnoresEveryStatedMatch ==
  (/\ filtering.called
   /\ ~filtering.context.isWordPressTheme
   /\ \E k \in 1..Len(DEFAULT_IGNORE_PATTERNS \o filtering.patterns) :
        StatedMatch(filtering.path, (DEFAULT_IGNORE_PATTERNS \o filtering.patterns)[k]))
    => filtering.ignored

\* the example of the statement
DeepGeneratedPathKept ==
  /\ filtering.called
  /\ filtering.path = "a/b/generated/c/d.ts"
  /\ filtering.patterns = << "**/generated/**" >>
  /\ ~filtering.context.isWordPressTheme
  /\ ~filtering.ignored

(***************************************************************************)
(* C28: the extraction gate.                                                *)
(***************************************************************************)
deepAsset == File("a/b/c/d/e/f/logo.svg", 300, "<svg/>")
emptySource == File("src/empty.ts", 0, "")

GateFiles ==
  { deepFile, deepAsset, bundle, belowExtraction, lockedCss, guide, emptySource }

InitGate ==
  InitWith(GateFiles, { <<>> }, { 1, DefaultMaxFiles }, { FALSE }, { RgSample })

SpecGate == InitGate /\ [][Next]_vars

\* what the extractors return for a file that is small enough and can be read
ExtractedFrom(file) ==
  IF file.size < MAX_KEYWORD_CONTENT_SIZE /\ file.readable
  THEN [keywords |-> extractKeywordsFromFile(file, file.content),
        exports |-> extractExports(file, file.content),
        dependencies |-> extractDependencies(file, file.content)]
  ELSE [keywords |-> <<>>, exports |-> <<>>, dependencies |-> <<>>]

\* C28: the importance of an indexed file is at least 0.5, so the gate of the
\* extraction is open for it, and its keywords, exports and dependencies are
\* those its size and readability alone give
GateOpenForEveryIndexedFile ==
  \A k \in 1..Len(fileMetadata) :
    /\ fileMetadata[k].importance >= 5
    /\ fileMetadata[k].importance > 4 \/ fileMetadata[k].type = "config"
    /\ LET stated == ExtractedFrom(FileAt(tree, fileMetadata[k].path))
       IN /\ fileMetadata[k].keywords = stated.keywords
          /\ fileMetadata[k].exports = stated.exports
          /\ fileMetadata[k].dependencies = stated.dependencies

\* a source file and an asset six directories deep, with the lowest score
LowestScoreStillExtracted ==
  /\ pc = "done"
  /\ Len(EntriesOf("a/b/c/d/e/f/deep.ts")) = 1
  /\ EntriesOf("a/b/c/d/e/f/deep.ts")[1].importance = 5
  /\ EntriesOf("a/b/c/d/e/f/deep.ts")[1].keywords = << "deep" >>
  /\ Len(EntriesOf("a/b/c/d/e/f/logo.svg")) = 1
  /\ EntriesOf("a/b/c/d/e/f/logo.svg")[1].type = "asset"
  /\ EntriesOf("a/b/c/d/e/f/logo.svg")[1].keywords = << "logo" >>

(***************************************************************************)
(* C29: when the platform override is active.                               *)
(***************************************************************************)
NamedWordPress ==
  \E k \in 1..Len(detectedStack) :
    detectedStack[k].name \in { "WordPress", "WordPress Theme" }

OverrideContext ==
  [isWordPressTheme |-> NamedWordPress, hasNodeModules |-> filterContext.hasNodeModules,
   detectedStack |-> filterContext.detectedStack]

\* C29: the override is active exactly when the detected stack has an entry
\* named WordPress or WordPress Theme, of any confidence: the context says so,
\* the two vendor patterns are among the ignore patterns exactly then, and the
\* files are kept, dropped and scored as the filter does with the override on
\* exactly then
OverrideFollowsStackName ==
  pc # "start"
    => /\ filterContext.isWordPressTheme <=> NamedWordPress
       /\ SeqContains(allIgnorePatterns, "**/vendor/**") <=> NamedWordPress
       /\ SeqContains(allIgnorePatterns, "**/assets/vendor/**") <=> NamedWordPress
       /\ \A k \in 1..Len(fileMetadata) :
            /\ ~shouldIgnorePath(fileMetadata[k].path, OverrideContext,
                                 config.ignorePatterns)
            /\ fileMetadata[k].importance
                 = calculateFileImportance(fileMetadata[k].path, OverrideContext)

\* a style sheet without a theme marker: the entry has confidence 0.6, and a
\* vendor directory below lib is left out of the index
UnmarkedStyleSheetTurnsOverrideOn ==
  /\ pc = "done"
  /\ Len(detectedStack) = 1
  /\ detectedStack[1].name = "WordPress Theme"
  /\ detectedStack[1].confidence = 6
  /\ filterContext.isWordPressTheme
  /\ IsFile(tree, "lib/vendor/dep.js")
  /\ config.maxFiles = DefaultMaxFiles
  /\ Len(fileMetadata) = 1
  /\ fileMetadata[1].path = "style.css"

(***************************************************************************)
(* C30: searchPattern called by itself, with each configured search and    *)
(* with the options a caller may leave out or add.                         *)
(***************************************************************************)
\* the calls of findEntryPoints, discoverKeyPatterns and
\* findConfigurationPatterns: pattern, glob and maxCount of each
ConfiguredSearches ==
  { [pattern |-> entryPointPatterns[k], glob |-> << "*.ts", "*.js" >>, maxCount |-> 20] :
      k \in 1..Len(entryPointPatterns) }
  \cup { [pattern |-> keyPatternSearches[k].pattern, glob |-> keyPatternSearches[k].glob,
          maxCount |-> keyPatternSearches[k].maxCount] :
           k \in 1..Len(keyPatternSearches) }
  \cup { [pattern |-> configurationSearches[k].pattern,
          glob |-> configurationSearches[k].glob,
          maxCount |-> configurationSearches[k].maxCount] :
           k \in 1..Len(configurationSearches) }

InitSearchCommand ==
  /\ tree = {}
  /\ config = [ignorePatterns |-> <<>>, maxFiles |-> DefaultMaxFiles,
               includeTests |-> FALSE]
  /\ rg = RgSample
  /\ platform = PosixNode
  /\ firstIndex = NoIndex
  /\ Fresh
  /\ NoCommand

NextSearchCommand ==
  \E search \in ConfiguredSearches :
    \E glob \in { search.glob, <<>> } :
      \E maxCount \in { search.maxCount, 0 }, caseSensitive \in BOOLEAN :
        RunSearchPattern(search.pattern,
                         [glob |-> glob, maxCount |-> maxCount,
                          caseSensitive |-> caseSensitive])

SpecSearchCommand == InitSearchCommand /\ [][NextSearchCommand]_vars

\* the call is one of the configured ones: its glob and maxCount, and no
\* caseSensitive option
AsConfigured ==
  /\ execution.called
  /\ ~execution.options.caseSensitive
  /\ [pattern |-> execution.pattern, glob |-> execution.options.glob,
      maxCount |-> execution.options.maxCount] \in ConfiguredSearches

\* C30: for every configured search the shell starts one command, with the
\* words of the args array as they were built, so that the pattern arrives at
\* the tool as its last argument, unchanged and in one piece
PatternReachesToolAsOneArgument ==
  AsConfigured
    => /\ ~execution.shell.error
       /\ Len(execution.shell.commands) = 1
       /\ execution.shell.commands[1] = execution.args
       /\ execution.args[Len(execution.args)] = execution.pattern

\* the search for authentication settings: the shell starts four commands,
\* the tool is given API_KEY as its pattern and SECRET, TOKEN and AUTH are
\* run as commands of their own
PipeSplitsPattern ==
  /\ AsConfigured
  /\ execution.pattern = "API_KEY|SECRET|TOKEN|AUTH"
  /\ ~execution.shell.error
  /\ Len(execution.shell.commands) = 4
  /\ execution.shell.commands[1]
       = << "rg", "--json", "--hidden", "--glob=!.git/*", "--glob=!node_modules/*",
            "--glob=!dist/*", "--glob=!build/*", "--glob=!coverage/*",
            "--glob=!.next/*", "--glob=*.env*", "--glob=*.config.*",
            "--max-count=10", "-i", "--", "API_KEY" >>
  /\ SubSeq(execution.shell.commands, 2, 4) = << << "SECRET" >>, << "TOKEN" >>, << "AUTH" >> >>

====
